---- MODULE Spec2Model ----
(***************************************************************************)
(* A model of the two Eagle demo programs (demo/c/eagle_demo_file.c and    *)
(* demo/c/eagle_demo_mic.c) driving the Eagle engine through the entry     *)
(* points declared in include/pv_eagle.h.  One behaviour is one run of one *)
(* demo.  The engine itself is a binary that is not part of the sources;   *)
(* its entry points are modelled from their documentation.                 *)
(***************************************************************************)
EXTENDS Integers, Sequences, FiniteSets, TLC

-----------------------------------------------------------------------------
(* Bounds of the model and engine-defined values.                          *)

\* Largest number of audio files on the command line of the file demo.
MaxFiles == 2
\* Largest number of samples in one wav file.
MaxSamples == 4
\* Value of pv_eagle_frame_length(): a small stand-in for the engine's value.
FrameLength == 2
\* Value the engine reports as minimum enrollment length, in samples.
MinEnrollLength == 3
\* Largest depth of an engine error stack.
MaxDepth == 2
\* Largest size of an exported speaker profile, in bytes.
MaxProfileSize == 2
\* Largest number of calls a client makes in the session specification.
MaxCalls == 5
\* Largest number of calls made with the interrupt flag set that is counted.
MaxCounted == 2

\* Value of pv_sample_rate().
SampleRate == 16000

Min(a, b) == IF a < b THEN a ELSE b

-----------------------------------------------------------------------------
(* Status codes, feedback codes, entry points.                             *)

SUCCESS == "PV_STATUS_SUCCESS"
INVALID_STATE == "PV_STATUS_INVALID_STATE"
INVALID_ARGUMENT == "PV_STATUS_INVALID_ARGUMENT"
RUNTIME_ERROR == "PV_STATUS_RUNTIME_ERROR"

\* Failure statuses an engine call may return for causes outside the caller.
FailStatuses == {INVALID_ARGUMENT, RUNTIME_ERROR}

AUDIO_OK == "AUDIO_OK"
AUDIO_TOO_SHORT == "AUDIO_TOO_SHORT"
UNKNOWN_SPEAKER == "UNKNOWN_SPEAKER"
NO_VOICE_FOUND == "NO_VOICE_FOUND"
QUALITY_ISSUE == "QUALITY_ISSUE"

Feedbacks == {AUDIO_OK, AUDIO_TOO_SHORT, UNKNOWN_SPEAKER, NO_VOICE_FOUND, QUALITY_ISSUE}

\* Feedback codes the engine derives from the content of long-enough audio.
ContentFeedbacks == {AUDIO_OK, UNKNOWN_SPEAKER, NO_VOICE_FOUND, QUALITY_ISSUE}

\* Amounts by which one accepted utterance may raise the percentage.
Increments == {40, 60, 100}

ProfilerSymbols ==
    {"pv_eagle_profiler_init", "pv_eagle_profiler_delete",
     "pv_eagle_profiler_enroll_feedback_to_string", "pv_eagle_profiler_enroll",
     "pv_eagle_profiler_enroll_min_audio_length_samples",
     "pv_eagle_profiler_export", "pv_eagle_profiler_export_size",
     "pv_eagle_profiler_reset"}

RecognizerSymbols ==
    {"pv_eagle_init", "pv_eagle_delete", "pv_eagle_process", "pv_eagle_reset"}

CommonSymbols ==
    {"pv_status_to_string", "pv_sample_rate", "pv_eagle_frame_length",
     "pv_eagle_version", "pv_get_error_stack", "pv_free_error_stack"}

\* Every entry point of the engine's function table.
CapabilityTable == ProfilerSymbols \cup RecognizerSymbols \cup CommonSymbols

\* The entry points that construct a session or pass audio or a profile through.
SessionCalls ==
    {"pv_eagle_profiler_init", "pv_eagle_init", "pv_eagle_profiler_enroll",
     "pv_eagle_process", "pv_eagle_profiler_export_size", "pv_eagle_profiler_export"}

\* A backend lacks no entry point or exactly one.
MissingChoices == {{}} \cup {{s} : s \in CapabilityTable}

-----------------------------------------------------------------------------
(* The order in which each function resolves its entry points.             *)

FileMainSymbols ==
    <<"pv_sample_rate", "pv_eagle_frame_length", "pv_eagle_version",
      "pv_get_error_stack", "pv_free_error_stack">>

MicMainSymbols ==
    <<"pv_eagle_frame_length", "pv_eagle_version",
      "pv_get_error_stack", "pv_free_error_stack">>

FileEnrollSymbols ==
    <<"pv_status_to_string", "pv_eagle_profiler_init", "pv_eagle_profiler_delete",
      "pv_eagle_profiler_enroll_feedback_to_string", "pv_eagle_profiler_enroll",
      "pv_eagle_profiler_enroll_min_audio_length_samples",
      "pv_eagle_profiler_export", "pv_eagle_profiler_export_size",
      "pv_eagle_profiler_reset", "pv_sample_rate">>

MicEnrollSymbols ==
    <<"pv_status_to_string", "pv_sample_rate", "pv_eagle_profiler_init",
      "pv_eagle_profiler_delete", "pv_eagle_profiler_enroll_feedback_to_string",
      "pv_eagle_profiler_enroll",
      "pv_eagle_profiler_enroll_min_audio_length_samples",
      "pv_eagle_profiler_export", "pv_eagle_profiler_export_size",
      "pv_eagle_profiler_reset", "pv_eagle_frame_length">>

FileRecogSymbols ==
    <<"pv_status_to_string", "pv_eagle_init", "pv_eagle_delete", "pv_eagle_process",
      "pv_eagle_reset", "pv_sample_rate", "pv_eagle_frame_length">>

MicRecogSymbols ==
    <<"pv_status_to_string", "pv_sample_rate", "pv_eagle_init", "pv_eagle_delete",
      "pv_eagle_process", "pv_eagle_reset", "pv_eagle_frame_length">>

MainSymbols(d) == IF d = "file" THEN FileMainSymbols ELSE MicMainSymbols

\* The entry points speaker_enrollment or speaker_recognition resolves.
ModeSymbols(d, m) ==
    IF m = "enroll"
    THEN (IF d = "file" THEN FileEnrollSymbols ELSE MicEnrollSymbols)
    ELSE (IF d = "file" THEN FileRecogSymbols ELSE MicRecogSymbols)

Range(s) == {s[k] : k \in 1..Len(s)}

\* Every entry point a run of demo d in mode m resolves.
ResolvedBy(d, m) == Range(MainSymbols(d)) \cup Range(ModeSymbols(d, m))

-----------------------------------------------------------------------------
(* Wav files.                                                              *)

WavFiles ==
    [sampleRate : {SampleRate, SampleRate \div 2}, bitsPerSample : {16, 8},
     channels : {1, 2}, totalPCMFrameCount : 0..MaxSamples]

NoWav == [sampleRate |-> 0, bitsPerSample |-> 0, channels |-> 0, totalPCMFrameCount |-> 0]

\* The format checks without the one of the channel count.
WavFormatCheckNoChannels(f) ==
    IF f.sampleRate # SampleRate THEN "audio sample rate should be"
    ELSE IF f.bitsPerSample # 16 THEN "audio format should be 16-bit"
    ELSE "ok"

\* The three format checks made on each opened wav file, in the code's order:
\* "ok" or the diagnostic of the first check that fails.
WavFormatCheck(f) ==
    IF f.sampleRate # SampleRate THEN "audio sample rate should be"
    ELSE IF f.bitsPerSample # 16 THEN "audio format should be 16-bit"
    ELSE IF f.channels # 1 THEN "audio should be single-channel"
    ELSE "ok"

\* What the engine requires of audio: 16-bit single-channel PCM at pv_sample_rate().
FormatOk(f) == f.sampleRate = SampleRate /\ f.bitsPerSample = 16 /\ f.channels = 1

-----------------------------------------------------------------------------
(* The engine, as its entry points are documented.  A call's outcome       *)
(* depends on the engine object's state, on the arguments, and on what the *)
(* caller cannot see: `fault' is the failure status of a cause outside the *)
(* caller (SUCCESS when there is none), `fb' and `inc' are what the engine *)
(* makes of the content of the audio.                                      *)

\* An enroll that reports the share of the last utterance, not the total.
EngineEnrollNotCumulative(pct, n, fault, fb, inc) ==
    IF n < MinEnrollLength
    THEN [status |-> SUCCESS, feedback |-> AUDIO_TOO_SHORT, percentage |-> pct]
    ELSE IF fault # SUCCESS
    THEN [status |-> fault, feedback |-> AUDIO_OK, percentage |-> pct]
    ELSE IF fb # AUDIO_OK
    THEN [status |-> SUCCESS, feedback |-> fb, percentage |-> pct]
    ELSE [status |-> SUCCESS, feedback |-> AUDIO_OK, percentage |-> inc]

\* An enroll that counts an utterance it gives a non-Ok feedback for.
EngineEnrollCountsRejected(pct, n, fault, fb, inc) ==
    IF n < MinEnrollLength
    THEN [status |-> SUCCESS, feedback |-> AUDIO_TOO_SHORT, percentage |-> pct]
    ELSE IF fault # SUCCESS
    THEN [status |-> fault, feedback |-> AUDIO_OK, percentage |-> pct]
    ELSE [status |-> SUCCESS, feedback |-> fb, percentage |-> Min(100, pct + inc)]

\* An enroll that does not compare the length with the minimum.
EngineEnrollNoLengthCheck(pct, n, fault, fb, inc) ==
    IF fault # SUCCESS
    THEN [status |-> fault, feedback |-> AUDIO_OK, percentage |-> pct]
    ELSE IF fb # AUDIO_OK
    THEN [status |-> SUCCESS, feedback |-> fb, percentage |-> pct]
    ELSE [status |-> SUCCESS, feedback |-> AUDIO_OK, percentage |-> Min(100, pct + inc)]

\* pv_eagle_profiler_enroll on a profiler whose percentage is pct, given n
\* samples: the status, the feedback and the percentage it reports.
EngineEnroll(pct, n, fault, fb, inc) ==
    IF n < MinEnrollLength
    THEN [status |-> SUCCESS, feedback |-> AUDIO_TOO_SHORT, percentage |-> pct]
    ELSE IF fault # SUCCESS
    THEN [status |-> fault, feedback |-> AUDIO_OK, percentage |-> pct]
    ELSE IF fb # AUDIO_OK
    THEN [status |-> SUCCESS, feedback |-> fb, percentage |-> pct]
    ELSE [status |-> SUCCESS, feedback |-> AUDIO_OK, percentage |-> Min(100, pct + inc)]

\* An export that does not look at the state of the enrollment.
EngineExportStatusAnyState(pct, fault) == fault

\* pv_eagle_profiler_export on a profiler whose percentage is pct.
EngineExportStatus(pct, fault) ==
    IF pct < 100 THEN INVALID_STATE
    ELSE fault

\* A reset that keeps the enrollment data.
EngineResetKeeps(pct) == pct

\* pv_eagle_profiler_reset: the percentage after it.
EngineReset(pct) == 0

\* The serialized profiles an engine may hold: byte strings of 1..MaxProfileSize bytes.
Profiles ==
    UNION {[1..k -> {0, 1}] : k \in 1..MaxProfileSize}

\* An allocation of one byte more than asked for.
ZerosOneMore(n) == [k \in 1..(n + 1) |-> 0]

\* calloc(n, 1): n zero bytes.
Zeros(n) == [k \in 1..n |-> 0]

-----------------------------------------------------------------------------
VARIABLES
    demo,               \* "file" or "mic": which demo program runs
    mode,               \* "none", "enroll" (-e given) or "test" (-t given)
    num_audio_paths,    \* argc - optind of the file demo
    args,               \* the options of the command line
    pc,                 \* the place of the run in the program
    exit_status,        \* "running", "EXIT_SUCCESS", "EXIT_FAILURE" or "killed"
    diag,               \* the last diagnostic written to stderr ("" when none)
    shown,              \* the status variables rendered on stderr so far
    lib,                \* the backend module: "unopened", "open", "closed"
    missing,            \* the entry points the opened backend lacks
    resolved,           \* the entry points load_symbol has returned
    load_idx,           \* index of the next entry point to resolve
    dl_error,           \* the entry point print_dl_error named ("" when none)
    called,             \* the engine entry points called so far
    profiler,           \* the engine profiler object: "none", "live", "deleted"
    engine_pct,         \* the percentage the engine profiler holds
    engine_profile,     \* the serialized profile the engine profiler holds
    eagle,              \* the engine recognizer object: "none", "live", "deleted"
    status,             \* eagle_profiler_status / eagle_status
    error_status,       \* the status of pv_get_error_stack
    message_stack_depth,
    stack,              \* the engine error stack: "none", "held", "freed"
    printed,            \* number of stack entries print_error_message wrote
    enroll_percentage,
    feedback,
    num_enroll_samples,
    buf_i,              \* offset of the next recorder read in enroll_pcm
    i,                  \* index (from 0) of the audio file of the loop
    wav,                \* the open wav file (NoWav when none)
    wav_pos,            \* samples of wav already read
    last_read,          \* samples the last frame read returned
    files,              \* the wav files opened so far, in order
    fed,                \* indices (from 1) of the files whose samples reached the engine
    profile_size_bytes,
    speaker_profile,    \* the profile buffer (<<>> when not allocated)
    profile_buf,        \* the memory of speaker_profile: "none", "allocated", "freed"
    disk,               \* content of the profile file (<<>> when absent or empty)
    is_interrupted,
    recorder,           \* "none", "stopped", "started", "deleted"
    ncalls,             \* calls made so far in the session specification
    num_speakers,       \* number of profiles the recognizer was constructed with
    unscored,           \* frames read whose score has not been printed yet
    after_int,          \* enroll and process calls made with is_interrupted set
    total_cpu_time_usec,        \* both totals in tenths of a microsecond
    total_processed_time_usec,
    real_time_factor,   \* the quotient printed (NoFactor when none was computed)
    message_stack,      \* the entries pv_get_error_stack returned, in its order
    rendered            \* the lines print_error_message wrote, in order

\* The options of a command line: which paths and modes are given, and the
\* first option, in command-line order, that is -s or is not a known one
\* ("none" when there is neither).
Args ==
    [library_path : BOOLEAN, access_key : BOOLEAN, model_path : BOOLEAN,
     e : BOOLEAN, t : BOOLEAN, first : {"none", "s", "bad"}]

\* A command line that asks for an enrollment and has all three paths.
EnrollArgs ==
    [library_path |-> TRUE, access_key |-> TRUE, model_path |-> TRUE,
     e |-> TRUE, t |-> FALSE, first |-> "none"]

\* The times gettimeofday may measure around one engine call, in tenths
\* of a microsecond.
CpuTimes == {0, 10}

\* (samples * 1e6) / pv_sample_rate(): the duration of samples, as the double
\* the code computes, in tenths of a microsecond.
AudioTime(samples) == (samples * 10000000) \div SampleRate

\* No real time factor was computed.
NoFactor == [kind |-> "none", num |-> 0, den |-> 0]

\* The quotient the other way round: b / a.
QuotientInverted(a, b) ==
    IF a # 0 THEN [kind |-> "finite", num |-> b, den |-> a]
    ELSE IF b = 0 THEN [kind |-> "nan", num |-> b, den |-> a]
    ELSE [kind |-> "inf", num |-> b, den |-> a]

\* a / b in double arithmetic: a division by 0.0 gives nan or inf.
Quotient(a, b) ==
    IF b # 0 THEN [kind |-> "finite", num |-> a, den |-> b]
    ELSE IF a = 0 THEN [kind |-> "nan", num |-> a, den |-> b]
    ELSE [kind |-> "inf", num |-> a, den |-> b]

\* The texts an entry of the engine's error stack may hold.
Messages == {"m1", "m2"}

\* The error stacks of depth d the engine may return.
Stacks(d) == [1..d -> Messages]

\* A rendering that leaves out the last entry of the stack.
RECURSIVE PrintErrorLinesButLast(_, _, _)
PrintErrorLinesButLast(ms, d, k) ==
    IF k < d - 1
    THEN <<[index |-> k, text |-> ms[k + 1]]>> \o PrintErrorLinesButLast(ms, d, k + 1)
    ELSE <<>>

\* print_error_message from index k on: for (i = k; i < depth; i++) the line
\* "  [i] message_stack[i]".  Entry i of the C array is ms[i + 1].
RECURSIVE PrintErrorLines(_, _, _)
PrintErrorLines(ms, d, k) ==
    IF k < d
    THEN <<[index |-> k, text |-> ms[k + 1]]>> \o PrintErrorLines(ms, d, k + 1)
    ELSE <<>>

cliVars == <<demo, mode, num_audio_paths, args>>
ctlVars == <<pc, exit_status, diag, shown>>
libVars == <<lib, missing, resolved, load_idx, dl_error>>
engVars == <<profiler, engine_pct, engine_profile, eagle>>
errVars == <<status, error_status, message_stack_depth, stack, printed>>
enrVars == <<enroll_percentage, feedback, num_enroll_samples, buf_i>>
wavVars == <<i, wav, wav_pos, last_read, files, fed>>
proVars == <<profile_size_bytes, speaker_profile, profile_buf, disk>>
micVars == <<is_interrupted, recorder>>
recVars == <<num_speakers, unscored, after_int>>
rtfVars == <<total_cpu_time_usec, total_processed_time_usec, real_time_factor>>
outVars == <<message_stack, rendered>>

vars == <<cliVars, ctlVars, libVars, engVars, called, errVars, enrVars, wavVars,
          proVars, micVars, ncalls, recVars, rtfVars, outVars>>

\* The state every run starts in, but for the demo that runs and the profile
\* file a test run finds on disk.
Init ==
    /\ demo \in {"file", "mic"}
    /\ args \in Args
    /\ mode = "none"
    /\ num_audio_paths = 0
    /\ pc = "parse_args"
    /\ exit_status = "running"
    /\ diag = ""
    /\ shown = {}
    /\ lib = "unopened"
    /\ missing = {}
    /\ resolved = {}
    /\ load_idx = 1
    /\ dl_error = ""
    /\ called = {}
    /\ profiler = "none"
    /\ engine_pct = 0
    /\ engine_profile = <<>>
    /\ eagle = "none"
    /\ status = SUCCESS
    /\ error_status = RUNTIME_ERROR
    /\ message_stack_depth = 0
    /\ stack = "none"
    /\ printed = 0
    /\ enroll_percentage = 0
    /\ feedback = AUDIO_OK
    /\ num_enroll_samples = 0
    /\ buf_i = 0
    /\ i = 0
    /\ wav = NoWav
    /\ wav_pos = 0
    /\ last_read = 0
    /\ files = <<>>
    /\ fed = {}
    /\ profile_size_bytes = 0
    /\ speaker_profile = <<>>
    /\ profile_buf = "none"
    /\ disk = <<>>
    /\ is_interrupted = FALSE
    /\ recorder = "none"
    /\ ncalls = 0
    /\ num_speakers = 0
    /\ unscored = 0
    /\ after_int = 0
    /\ total_cpu_time_usec = 0
    /\ total_processed_time_usec = 0
    /\ real_time_factor = NoFactor
    /\ message_stack = <<>>
    /\ rendered = <<>>

\* exit(st) after writing diagnostic d.
Exit(st, d) ==
    /\ pc' = "done"
    /\ exit_status' = st
    /\ diag' = d
    /\ UNCHANGED shown

\* Control moves to place p; nothing is written to stderr.
Goto(p) ==
    /\ pc' = p
    /\ UNCHANGED <<exit_status, diag, shown>>


\* The failure messages whose format renders the failing status with
\* pv_status_to_string; the other failure messages are plain text.
StatusMessages ==
    {"Failed to enroll audio: %s",
     "Failed to get profile size with '%s'",
     "Failed to export profile with '%s'",
     "Failed to create an instance of eagle with '%s'",
     "Failed to process audio with '%s'"}

\* A handling of a failed call that writes the message and makes the call again.
EngineFailedRetries(d) ==
    /\ pc' = pc
    /\ diag' = d
    /\ UNCHANGED <<exit_status, shown>>

\* An engine call returned a failure status: the caller writes message d and
\* goes on to query the error stack.
EngineFailed(d) ==
    /\ pc' = "get_error_stack"
    /\ diag' = d
    /\ shown' = IF d \in StatusMessages THEN shown \cup {"status"} ELSE shown
    /\ UNCHANGED exit_status

Statuses == {SUCCESS} \cup FailStatuses

-----------------------------------------------------------------------------
(* picovoice_main.                                                         *)

\* The outcome of the option loop and of the checks that follow it, for demo d,
\* options a and n trailing arguments: "open" when open_dl is reached.
\* This one accepts a command line that selects both modes or none.
ArgsVerdictNoModeCheck(d, a, n) ==
    IF a.first = "bad" \/ (a.first = "s" /\ d = "file") THEN "unknown option"
    ELSE IF a.first = "s" THEN "show_audio_devices"
    ELSE IF ~(a.library_path /\ a.access_key /\ a.model_path) THEN "usage"
    ELSE IF d = "file" /\ n < 1 THEN "Please provide at least one audio file"
    ELSE "open"

\* The outcome of the option loop and of the checks that follow it, for demo d,
\* options a and n trailing arguments: "open" when open_dl is reached.
ArgsVerdict(d, a, n) ==
    IF a.first = "bad" \/ (a.first = "s" /\ d = "file") THEN "unknown option"
    ELSE IF a.first = "s" THEN "show_audio_devices"
    ELSE IF ~(a.library_path /\ a.access_key /\ a.model_path) THEN "usage"
    ELSE IF a.t /\ a.e THEN "Please run the demo in either enrollment or test mode"
    ELSE IF ~a.t /\ ~a.e THEN "Please specify either enrollment or test mode"
    ELSE IF d = "file" /\ n < 1 THEN "Please provide at least one audio file"
    ELSE "open"

\* The option loop and the checks of the parsed command line, up to the
\* opening of the backend; -s of the mic demo lists the audio devices and
\* returns 0.
ParseArgs ==
    /\ pc = "parse_args"
    /\ \E n \in 0..MaxFiles, ok \in BOOLEAN :
        LET v == ArgsVerdict(demo, args, n) IN
        IF v = "open"
        THEN /\ mode' = IF args.e THEN "enroll" ELSE "test"
             /\ num_audio_paths' = IF demo = "file" THEN n ELSE 0
             /\ Goto("open_dl")
        ELSE IF v = "show_audio_devices"
        THEN /\ IF ok THEN Exit("EXIT_SUCCESS", "")
                ELSE Exit("EXIT_FAILURE", "Failed to get audio devices")
             /\ UNCHANGED <<mode, num_audio_paths>>
        ELSE /\ Exit("EXIT_FAILURE", v)
             /\ UNCHANGED <<mode, num_audio_paths>>
    /\ UNCHANGED <<demo, args, libVars, engVars, called, errVars, enrVars, wavVars,
                   proVars, micVars, ncalls, recVars, rtfVars,
                   outVars>>

\* open_dl(library_path): the backend found there lacks the entry points m.
OpenDl ==
    /\ pc = "open_dl"
    /\ \E ok \in BOOLEAN, m \in MissingChoices :
        IF ~ok
        THEN /\ Exit("EXIT_FAILURE", "Failed to open library")
             /\ UNCHANGED <<lib, missing>>
        ELSE /\ lib' = "open"
             /\ missing' = m
             /\ Goto("main_load")
    /\ UNCHANGED <<cliVars, resolved, load_idx, dl_error, engVars, called, errVars,
                   enrVars, wavVars, proVars, micVars, ncalls, recVars, rtfVars,
                   outVars>>

\* A load_symbol that returns NULL goes unnoticed and the run goes on.
LoadSymbolUnchecked(syms, next) ==
    /\ resolved' = resolved \cup ({syms[load_idx]} \ missing)
    /\ UNCHANGED dl_error
    /\ load_idx' = IF load_idx = Len(syms) THEN 1 ELSE load_idx + 1
    /\ Goto(IF load_idx = Len(syms) THEN next ELSE pc)

\* One load_symbol of the list syms and the test of its result; after the last
\* one control goes to next.
LoadSymbol(syms, next) ==
    IF syms[load_idx] \in missing
    THEN /\ Exit("EXIT_FAILURE", "Failed to load symbol")
         /\ dl_error' = syms[load_idx]
         /\ UNCHANGED <<resolved, load_idx>>
    ELSE /\ resolved' = resolved \cup {syms[load_idx]}
         /\ UNCHANGED dl_error
         /\ load_idx' = IF load_idx = Len(syms) THEN 1 ELSE load_idx + 1
         /\ Goto(IF load_idx = Len(syms) THEN next ELSE pc)

LoadMainSymbol ==
    /\ pc = "main_load"
    /\ LoadSymbol(MainSymbols(demo), "print_version")
    /\ UNCHANGED <<cliVars, lib, missing, engVars, called, errVars, enrVars,
                   wavVars, proVars, micVars, ncalls, recVars, rtfVars,
                   outVars>>

\* fprintf(stdout, "v%s\n\n", pv_eagle_version_func()); the mic demo then reads
\* the frame length for the recorder.
PrintVersion ==
    /\ pc = "print_version"
    /\ called' = called \cup (IF demo = "file" THEN {"pv_eagle_version"}
                              ELSE {"pv_eagle_version", "pv_eagle_frame_length"})
    /\ Goto(IF demo = "file" THEN "mode_load" ELSE "recorder_init")
    /\ UNCHANGED <<cliVars, libVars, engVars, errVars, enrVars, wavVars, proVars,
                   micVars, ncalls, recVars, rtfVars,
                   outVars>>

RecorderInit ==
    /\ pc = "recorder_init"
    /\ \E ok \in BOOLEAN :
        IF ~ok
        THEN Exit("EXIT_FAILURE", "Failed to initialize device") /\ UNCHANGED recorder
        ELSE recorder' = "stopped" /\ Goto("mode_load")
    /\ UNCHANGED <<cliVars, libVars, engVars, called, errVars, enrVars, wavVars,
                   proVars, is_interrupted, ncalls, recVars, rtfVars,
                   outVars>>

\* The load_symbol calls at the head of speaker_enrollment / speaker_recognition.
LoadModeSymbol ==
    /\ pc = "mode_load"
    /\ LoadSymbol(ModeSymbols(demo, mode),
                  IF mode = "enroll" THEN "profiler_init" ELSE "open_profile")
    /\ UNCHANGED <<cliVars, lib, missing, engVars, called, errVars, enrVars,
                   wavVars, proVars, micVars, ncalls, recVars, rtfVars,
                   outVars>>

\* Return from speaker_enrollment / speaker_recognition: the mic demo deletes
\* the recorder; close_dl; return EXIT_SUCCESS.
CloseDl ==
    /\ pc = "close_dl"
    /\ lib' = "closed"
    /\ recorder' = IF demo = "mic" THEN "deleted" ELSE recorder
    /\ Exit("EXIT_SUCCESS", "")
    /\ UNCHANGED <<cliVars, missing, resolved, load_idx, dl_error, engVars, called,
                   errVars, enrVars, wavVars, proVars, is_interrupted, ncalls, recVars, rtfVars,
                   outVars>>

\* The SIGINT handler of the mic demo.
Interrupt ==
    /\ demo = "mic"
    /\ pc # "done"
    /\ ~is_interrupted
    /\ is_interrupted' = TRUE
    /\ UNCHANGED <<cliVars, ctlVars, libVars, engVars, called, errVars, enrVars,
                   wavVars, proVars, recorder, ncalls, recVars, rtfVars,
                   outVars>>

-----------------------------------------------------------------------------
(* The error report after a failed engine call.                            *)

\* pv_get_error_stack and the test of its status and of the depth.
GetErrorStack ==
    /\ pc = "get_error_stack"
    /\ \E es \in Statuses, depth \in 0..MaxDepth, ms \in UNION {Stacks(d) : d \in 0..MaxDepth} :
        /\ Len(ms) = depth
        /\ error_status' = es
        /\ IF es # SUCCESS
           THEN /\ called' = called \cup {"pv_get_error_stack", "pv_status_to_string"}
                /\ pc' = "done"
                /\ exit_status' = "EXIT_FAILURE"
                /\ diag' = "Unable to get Eagle error state with '%s'"
                /\ shown' = shown \cup {"error_status"}
                /\ UNCHANGED <<message_stack_depth, stack, message_stack>>
           ELSE /\ called' = called \cup {"pv_get_error_stack"}
                /\ message_stack_depth' = depth
                /\ message_stack' = ms
                /\ stack' = "held"
                /\ IF depth > 0
                   THEN Goto("print_error")
                   ELSE /\ pc' = "done"
                        /\ exit_status' = "EXIT_FAILURE"
                        /\ UNCHANGED <<diag, shown>>
    /\ UNCHANGED <<cliVars, libVars, engVars, status, printed, enrVars, wavVars,
                   proVars, micVars, ncalls, recVars, rtfVars,
                   rendered>>

\* A report that prints the entries and ends the run without releasing them.
PrintErrorMessageNoFree ==
    /\ pc = "print_error"
    /\ rendered' = PrintErrorLines(message_stack, message_stack_depth, 0)
    /\ printed' = Len(rendered')
    /\ Exit("EXIT_FAILURE", diag)
    /\ UNCHANGED <<cliVars, libVars, engVars, called, status, error_status,
                   message_stack_depth, stack, enrVars, wavVars, proVars, micVars,
                   ncalls, recVars, rtfVars,
                   message_stack>>

\* print_error_message: one line per entry, 0 .. depth - 1.
PrintErrorMessage ==
    /\ pc = "print_error"
    /\ rendered' = PrintErrorLines(message_stack, message_stack_depth, 0)
    /\ printed' = Len(rendered')
    /\ Goto("free_error_stack")
    /\ UNCHANGED <<cliVars, libVars, engVars, called, status, error_status,
                   message_stack_depth, stack, enrVars, wavVars, proVars, micVars,
                   ncalls, recVars, rtfVars,
                   message_stack>>

\* pv_free_error_stack_func(message_stack); exit(EXIT_FAILURE).
FreeErrorStack ==
    /\ pc = "free_error_stack"
    /\ stack' = "freed"
    /\ called' = called \cup {"pv_free_error_stack"}
    /\ pc' = "done"
    /\ exit_status' = "EXIT_FAILURE"
    /\ UNCHANGED <<cliVars, diag, shown, libVars, engVars, status, error_status,
                   message_stack_depth, printed, enrVars, wavVars, proVars, micVars,
                   ncalls, recVars, rtfVars,
                   outVars>>


-----------------------------------------------------------------------------
(* speaker_enrollment.                                                     *)

\* pv_eagle_profiler_init and the test of its status.
ProfilerInit ==
    /\ pc = "profiler_init"
    /\ called' = called \cup {"pv_eagle_profiler_init"}
    /\ \E st \in Statuses :
        /\ status' = st
        /\ IF st = SUCCESS
           THEN /\ profiler' = "live"
                /\ engine_pct' = 0
                /\ Goto(IF demo = "file" THEN "enroll_loop" ELSE "min_length")
           ELSE /\ EngineFailed("Failed to create an instance of eagle profiler")
                /\ UNCHANGED <<profiler, engine_pct>>
    /\ UNCHANGED <<cliVars, libVars, engine_profile, eagle, error_status,
                   message_stack_depth, stack, printed, enrVars, wavVars, proVars,
                   micVars, ncalls, recVars, rtfVars,
                   outVars>>

\* A loop over the audio files that stops once the percentage is 100.
EnrollOpenFileStopsAtHundred ==
    /\ pc = "enroll_loop"
    /\ IF i < num_audio_paths /\ enroll_percentage < 100
       THEN \E ok \in BOOLEAN, f \in WavFiles, mem \in BOOLEAN :
            IF ~ok
            THEN /\ Exit("EXIT_FAILURE", "Failed to open wav file")
                 /\ UNCHANGED <<wav, files, called>>
            ELSE /\ files' = Append(files, f)
                 /\ called' = called \cup {"pv_sample_rate"}
                 /\ IF WavFormatCheck(f) # "ok"
                    THEN Exit("EXIT_FAILURE", WavFormatCheck(f)) /\ UNCHANGED wav
                    ELSE IF ~mem
                    THEN /\ Exit("EXIT_FAILURE", "Failed to allocate memory for enrollment audio")
                         /\ UNCHANGED wav
                    ELSE wav' = f /\ Goto("enroll_call")
       ELSE /\ Goto("check_percentage")
            /\ UNCHANGED <<wav, files, called>>
    /\ UNCHANGED <<cliVars, libVars, engVars, errVars, enrVars, i, wav_pos,
                   last_read, fed, proVars, micVars, ncalls, recVars, rtfVars,
                   outVars>>

\* File demo, head of one iteration of the loop over the audio files: the file
\* is opened, its format checked, its samples read into a fresh buffer.
EnrollOpenFile ==
    /\ pc = "enroll_loop"
    /\ IF i < num_audio_paths
       THEN \E ok \in BOOLEAN, f \in WavFiles, mem \in BOOLEAN :
            IF ~ok
            THEN /\ Exit("EXIT_FAILURE", "Failed to open wav file")
                 /\ UNCHANGED <<wav, files, called>>
            ELSE /\ files' = Append(files, f)
                 /\ called' = called \cup {"pv_sample_rate"}
                 /\ IF WavFormatCheck(f) # "ok"
                    THEN Exit("EXIT_FAILURE", WavFormatCheck(f)) /\ UNCHANGED wav
                    ELSE IF ~mem
                    THEN /\ Exit("EXIT_FAILURE", "Failed to allocate memory for enrollment audio")
                         /\ UNCHANGED wav
                    ELSE wav' = f /\ Goto("enroll_call")
       ELSE /\ Goto("check_percentage")
            /\ UNCHANGED <<wav, files, called>>
    /\ UNCHANGED <<cliVars, libVars, engVars, errVars, enrVars, i, wav_pos,
                   last_read, fed, proVars, micVars, ncalls, recVars, rtfVars,
                   outVars>>

\* The values pv_eagle_profiler_enroll leaves in the caller's variables and in
\* the profiler, given n samples.
ProfilerEnroll(n, fault, fb, inc) ==
    LET r == EngineEnroll(engine_pct, n, fault, fb, inc) IN
    /\ called' = called \cup {"pv_eagle_profiler_enroll"}
    /\ status' = r.status
    /\ IF r.status = SUCCESS
       THEN /\ feedback' = r.feedback
            /\ enroll_percentage' = r.percentage
            /\ engine_pct' = r.percentage
       ELSE /\ feedback' = IF demo = "file" THEN AUDIO_OK ELSE feedback
            /\ UNCHANGED <<enroll_percentage, engine_pct>>

\* File demo: the enroll call on the samples of file i, the test of its status,
\* the progress line, and the step to the next file.
EnrollFile ==
    /\ pc = "enroll_call"
    /\ \E fault \in Statuses, fb \in ContentFeedbacks, inc \in Increments :
        ProfilerEnroll(wav.totalPCMFrameCount, fault, fb, inc)
    /\ fed' = fed \cup {i + 1}
    /\ IF status' # SUCCESS
       THEN /\ EngineFailed("Failed to enroll audio: %s")
            /\ UNCHANGED <<i, wav, total_cpu_time_usec, total_processed_time_usec>>
       ELSE /\ \E t \in CpuTimes : total_cpu_time_usec' = total_cpu_time_usec + t
            /\ total_processed_time_usec' =
                   total_processed_time_usec + AudioTime(wav.totalPCMFrameCount)
            /\ i' = i + 1
            /\ wav' = NoWav
            /\ Goto("enroll_loop")
    /\ UNCHANGED <<cliVars, libVars, profiler, engine_profile, eagle, error_status,
                   message_stack_depth, stack, printed, num_enroll_samples, buf_i,
                   wav_pos, last_read, files, proVars, micVars, ncalls, recVars, real_time_factor,
                   outVars>>

\* An end of the file loop that goes on to the export whatever the percentage.
CheckPercentageSkipped ==
    /\ pc = "check_percentage"
    /\ Goto("export_size")
    /\ UNCHANGED <<cliVars, libVars, engVars, called, errVars, enrVars, wavVars,
                   proVars, micVars, ncalls, recVars, rtfVars,
                   outVars>>

\* File demo, after the loop: if (enroll_percentage < 100.0f) exit(EXIT_FAILURE);
\* then the real time factor.
CheckPercentage ==
    /\ pc = "check_percentage"
    /\ IF enroll_percentage < 100
       THEN /\ Exit("EXIT_FAILURE", "Insufficient enrollment percentage")
            /\ UNCHANGED real_time_factor
       ELSE /\ real_time_factor' = Quotient(total_cpu_time_usec, total_processed_time_usec)
            /\ Goto("export_size")
    /\ UNCHANGED <<cliVars, libVars, engVars, called, errVars, enrVars, wavVars,
                   proVars, micVars, ncalls, recVars,
                   total_cpu_time_usec, total_processed_time_usec,
                   outVars>>

\* Mic demo: pv_eagle_profiler_enroll_min_audio_length_samples and the
\* allocation of enroll_pcm.
MinLength ==
    /\ pc = "min_length"
    /\ \E st \in Statuses, mem \in BOOLEAN :
        /\ status' = st
        /\ IF st # SUCCESS
           THEN /\ EngineFailed("Failed to get minimum number of enrollment samples")
                /\ called' = called \cup {"pv_eagle_profiler_enroll_min_audio_length_samples"}
                /\ UNCHANGED num_enroll_samples
           ELSE /\ num_enroll_samples' = MinEnrollLength
                /\ IF ~mem
                   THEN /\ Exit("EXIT_FAILURE", "Failed to allocate pcm memory")
                        /\ called' = called \cup {"pv_eagle_profiler_enroll_min_audio_length_samples"}
                   ELSE /\ Goto("mic_enroll_loop")
                        /\ called' = called \cup
                               {"pv_eagle_profiler_enroll_min_audio_length_samples",
                                "pv_eagle_frame_length"}
    /\ UNCHANGED <<cliVars, libVars, engVars, error_status, message_stack_depth,
                   stack, printed, enroll_percentage, feedback, buf_i, wavVars,
                   proVars, micVars, ncalls, recVars, rtfVars,
                   outVars>>

\* An enrollment loop head that does not look at the percentage.
MicEnrollLoopIgnoresPercentage ==
    /\ pc = "mic_enroll_loop"
    /\ Goto(IF ~is_interrupted THEN "rec_start" ELSE "mic_after_loop")
    /\ UNCHANGED <<cliVars, libVars, engVars, called, errVars, enrVars, wavVars,
                   proVars, micVars, ncalls, recVars, rtfVars,
                   outVars>>

\* An enrollment loop head that does not read the interrupt flag.
MicEnrollLoopIgnoresFlag ==
    /\ pc = "mic_enroll_loop"
    /\ Goto(IF enroll_percentage < 100 THEN "rec_start" ELSE "mic_after_loop")
    /\ UNCHANGED <<cliVars, libVars, engVars, called, errVars, enrVars, wavVars,
                   proVars, micVars, ncalls, recVars, rtfVars,
                   outVars>>

\* Mic demo: while ((enroll_percentage < 100.0f) && (!is_interrupted)).
MicEnrollLoop ==
    /\ pc = "mic_enroll_loop"
    /\ Goto(IF enroll_percentage < 100 /\ ~is_interrupted
            THEN "rec_start" ELSE "mic_after_loop")
    /\ UNCHANGED <<cliVars, libVars, engVars, called, errVars, enrVars, wavVars,
                   proVars, micVars, ncalls, recVars, rtfVars,
                   outVars>>

\* An end of the enrollment loop that goes on to the export whatever the flag.
MicAfterLoopIgnoresFlag ==
    /\ pc = "mic_after_loop"
    /\ Goto("export_size")
    /\ UNCHANGED <<cliVars, libVars, engVars, called, errVars, enrVars, wavVars,
                   proVars, micVars, ncalls, recVars, rtfVars,
                   outVars>>

\* Mic demo, after the loop: if (is_interrupted) exit(EXIT_SUCCESS).
MicAfterLoop ==
    /\ pc = "mic_after_loop"
    /\ IF is_interrupted
       THEN Exit("EXIT_SUCCESS", "Enrollment interrupted")
       ELSE Goto("export_size")
    /\ UNCHANGED <<cliVars, libVars, engVars, called, errVars, enrVars, wavVars,
                   proVars, micVars, ncalls, recVars, rtfVars,
                   outVars>>

\* pv_recorder_start at the head of a batch (enrollment) or before the
\* processing loop (recognition, which then allocates pcm).
RecorderStart ==
    /\ pc \in {"rec_start", "recog_rec_start"}
    /\ \E ok \in BOOLEAN, mem \in BOOLEAN :
        IF ~ok
        THEN /\ Exit("EXIT_FAILURE", "Failed to start device")
             /\ UNCHANGED <<recorder, buf_i, called>>
        ELSE /\ recorder' = "started"
             /\ buf_i' = 0
             /\ IF pc = "rec_start"
                THEN Goto("rec_read") /\ UNCHANGED called
                ELSE /\ called' = called \cup {"pv_eagle_frame_length"}
                     /\ IF mem THEN Goto("mic_recog_loop")
                        ELSE Exit("EXIT_FAILURE", "Failed to allocate pcm memory")
    /\ UNCHANGED <<cliVars, libVars, engVars, errVars, enroll_percentage, feedback,
                   num_enroll_samples, wavVars, proVars, is_interrupted, ncalls, recVars, rtfVars,
                   outVars>>

\* Mic enrollment: for (i = 0; i < num_enroll_samples; i += frame_length)
\* pv_recorder_read(recorder, &enroll_pcm[i]).  The recorder writes frame_length
\* samples; a read that runs past the end of enroll_pcm is undefined: the
\* run is killed there or goes on.
RecorderRead ==
    /\ pc = "rec_read"
    /\ IF buf_i < num_enroll_samples
       THEN \E ok \in BOOLEAN, killed \in BOOLEAN :
            IF ~ok
            THEN Exit("EXIT_FAILURE", "Failed to read audio") /\ UNCHANGED buf_i
            ELSE IF killed /\ buf_i + FrameLength > num_enroll_samples
            THEN Exit("killed", "") /\ UNCHANGED buf_i
            ELSE buf_i' = buf_i + FrameLength /\ Goto("rec_read")
       ELSE Goto("rec_stop") /\ UNCHANGED buf_i
    /\ UNCHANGED <<cliVars, libVars, engVars, called, errVars, enroll_percentage,
                   feedback, num_enroll_samples, wavVars, proVars, micVars, ncalls, recVars, rtfVars,
                   outVars>>

\* An end of a batch that leaves the recorder running.
RecorderStopSkipped ==
    /\ pc = "rec_stop"
    /\ Goto("mic_enroll_call")
    /\ UNCHANGED <<cliVars, libVars, engVars, called, errVars, enrVars, wavVars,
                   proVars, micVars, ncalls, recVars, rtfVars,
                   outVars>>

\* pv_recorder_stop after a batch (enrollment).
RecorderStop ==
    /\ pc = "rec_stop"
    /\ \E ok \in BOOLEAN :
        IF ~ok
        THEN Exit("EXIT_FAILURE", "Failed to stop device") /\ UNCHANGED recorder
        ELSE recorder' = "stopped" /\ Goto("mic_enroll_call")
    /\ UNCHANGED <<cliVars, libVars, engVars, called, errVars, enrVars, wavVars,
                   proVars, is_interrupted, ncalls, recVars, rtfVars,
                   outVars>>

\* An enroll step that treats a non-Ok feedback as a failure of the run.
EnrollBatchFatalFeedback ==
    /\ pc = "mic_enroll_call"
    /\ after_int' = IF is_interrupted THEN Min(MaxCounted, after_int + 1) ELSE after_int
    /\ \E fault \in Statuses, fb \in ContentFeedbacks, inc \in Increments :
        ProfilerEnroll(num_enroll_samples, fault, fb, inc)
    /\ IF status' # SUCCESS
       THEN EngineFailed("Failed to enroll audio")
       ELSE IF feedback' # AUDIO_OK
       THEN Exit("EXIT_FAILURE", "Enrollment audio feedback")
       ELSE Goto("mic_enroll_loop")
    /\ UNCHANGED <<cliVars, libVars, profiler, engine_profile, eagle, error_status,
                   message_stack_depth, stack, printed, num_enroll_samples, buf_i,
                   wavVars, proVars, micVars, ncalls, num_speakers, unscored, rtfVars,
                   outVars>>

\* Mic demo: the enroll call on the recorded batch, the test of its status and
\* the feedback and progress lines.
EnrollBatch ==
    /\ pc = "mic_enroll_call"
    /\ after_int' = IF is_interrupted THEN Min(MaxCounted, after_int + 1) ELSE after_int
    /\ \E fault \in Statuses, fb \in ContentFeedbacks, inc \in Increments :
        ProfilerEnroll(num_enroll_samples, fault, fb, inc)
    /\ IF status' # SUCCESS
       THEN EngineFailed("Failed to enroll audio")
       ELSE Goto("mic_enroll_loop")
    /\ UNCHANGED <<cliVars, libVars, profiler, engine_profile, eagle, error_status,
                   message_stack_depth, stack, printed, num_enroll_samples, buf_i,
                   wavVars, proVars, micVars, ncalls, num_speakers, unscored, rtfVars,
                   outVars>>

\* pv_eagle_profiler_export_size, the test of its status, and the calloc of
\* the profile buffer.
ExportSize ==
    /\ pc = "export_size"
    /\ called' = called \cup {"pv_eagle_profiler_export_size"}
    /\ \E st \in Statuses, p \in Profiles, mem \in BOOLEAN :
        /\ status' = st
        /\ IF st # SUCCESS
           THEN /\ EngineFailed("Failed to get profile size with '%s'")
                /\ UNCHANGED <<engine_profile, profile_size_bytes, speaker_profile, profile_buf>>
           ELSE /\ engine_profile' = p
                /\ profile_size_bytes' = Len(p)
                /\ IF ~mem
                   THEN /\ Exit("EXIT_FAILURE", "Failed to allocate memory for profile")
                        /\ UNCHANGED <<speaker_profile, profile_buf>>
                   ELSE /\ speaker_profile' = Zeros(Len(p))
                        /\ profile_buf' = "allocated"
                        /\ Goto("export")
    /\ UNCHANGED <<cliVars, libVars, profiler, engine_pct, eagle, error_status,
                   message_stack_depth, stack, printed, enrVars, wavVars, disk,
                   micVars, ncalls, recVars, rtfVars,
                   outVars>>

\* pv_eagle_profiler_export and the test of its status.  The file demo reports
\* a failure with the error stack; the mic demo exits at once.
Export ==
    /\ pc = "export"
    /\ called' = called \cup {"pv_eagle_profiler_export"}
    /\ \E fault \in Statuses :
        /\ status' = EngineExportStatus(engine_pct, fault)
        /\ IF status' = SUCCESS
           THEN /\ speaker_profile' = engine_profile
                /\ Goto("profiler_delete")
           ELSE /\ UNCHANGED speaker_profile
                /\ IF demo = "file"
                   THEN EngineFailed("Failed to export profile with '%s'")
                   ELSE /\ pc' = "done"
                        /\ exit_status' = "EXIT_FAILURE"
                        /\ diag' = "Failed to export profile with '%s'"
                        /\ shown' = shown \cup {"status"}
    /\ UNCHANGED <<cliVars, libVars, engVars, error_status, message_stack_depth,
                   stack, printed, enrVars, wavVars, profile_size_bytes, profile_buf, disk,
                   micVars, ncalls, recVars, rtfVars,
                   outVars>>

\* A return from the enrollment that leaves the profiler alive.
ProfilerDeleteSkipped ==
    /\ pc = "profiler_delete"
    /\ Goto("write_profile")
    /\ UNCHANGED <<cliVars, libVars, engVars, called, errVars,
                   enrVars, wavVars, proVars, micVars, ncalls, recVars, rtfVars,
                   outVars>>

\* pv_eagle_profiler_delete_func(eagle_profiler).
ProfilerDelete ==
    /\ pc = "profiler_delete"
    /\ called' = called \cup {"pv_eagle_profiler_delete"}
    /\ profiler' = "deleted"
    /\ Goto("write_profile")
    /\ UNCHANGED <<cliVars, libVars, engine_pct, engine_profile, eagle, errVars,
                   enrVars, wavVars, proVars, micVars, ncalls, recVars, rtfVars,
                   outVars>>

\* The bytes a file holds after fwrite put the first k bytes of buf into it.
Written(buf, k) == SubSeq(buf, 1, k)

\* fopen(output_profile_path, "wb"), fwrite of the profile buffer, the line
\* "Speaker profile is written to", fclose.  fopen creates or truncates the
\* file.  fwrite is asked for one item of profile_size_bytes bytes and may put
\* fewer bytes (k) into the file when the device fails or is full; its result
\* and that of fclose are not looked at.  The file demo then frees the buffer.
WriteProfile ==
    /\ pc = "write_profile"
    /\ \E ok \in BOOLEAN, k \in 0..profile_size_bytes :
        IF ~ok
        THEN /\ Exit("EXIT_FAILURE", "Failed to open for writing")
             /\ UNCHANGED <<disk, profile_buf>>
        ELSE /\ disk' = Written(speaker_profile, k)
             /\ profile_buf' = IF demo = "file" THEN "freed" ELSE profile_buf
             /\ Goto("close_dl")
    /\ UNCHANGED <<cliVars, libVars, engVars, called, errVars, enrVars, wavVars,
                   profile_size_bytes, speaker_profile, micVars, ncalls, recVars, rtfVars,
                   outVars>>


-----------------------------------------------------------------------------
(* speaker_recognition.                                                    *)

\* fopen(input_profile_path, "rb"): the file, when it opens, holds content c.
OpenProfile ==
    /\ pc = "open_profile"
    /\ \E ok \in BOOLEAN, c \in Profiles \cup {<<>>} :
        IF ~ok
        THEN /\ Exit("EXIT_FAILURE", "Failed to open speaker profile file")
             /\ UNCHANGED disk
        ELSE disk' = c /\ Goto("read_profile")
    /\ UNCHANGED <<cliVars, libVars, engVars, called, errVars, enrVars, wavVars,
                   profile_size_bytes, speaker_profile, profile_buf, micVars, ncalls, recVars, rtfVars,
                   outVars>>

\* A read of the profile that does not compare the number of bytes read.
ReadProfileUnchecked ==
    /\ pc = "read_profile"
    /\ profile_size_bytes' = Len(disk)
    /\ profile_buf' = "allocated"
    /\ \E num_bytes \in {Len(disk), 0} :
        /\ speaker_profile' = IF num_bytes # Len(disk) THEN Zeros(Len(disk)) ELSE disk
        /\ Goto("eagle_init")
    /\ UNCHANGED <<cliVars, libVars, engVars, called, errVars, enrVars, wavVars,
                   disk, micVars, ncalls, recVars, rtfVars,
                   outVars>>

\* ftell gives the size; calloc; fread; if (num_bytes != speaker_profile_size) exit.
\* The result of calloc is not looked at: when it fails for a file that is
\* not empty, fread is given a null buffer, which is undefined: the run is
\* killed there or fread returns 0.
ReadProfile ==
    /\ pc = "read_profile"
    /\ profile_size_bytes' = Len(disk)
    /\ \E num_bytes \in {Len(disk), 0}, mem \in BOOLEAN, killed \in BOOLEAN :
        IF ~mem /\ Len(disk) > 0
        THEN /\ IF killed THEN Exit("killed", "")
                ELSE Exit("EXIT_FAILURE", "Failed to read speaker profile")
             /\ UNCHANGED <<speaker_profile, profile_buf>>
        ELSE /\ profile_buf' = "allocated"
             /\ IF num_bytes # Len(disk)
                THEN /\ Exit("EXIT_FAILURE", "Failed to read speaker profile")
                     /\ speaker_profile' = Zeros(Len(disk))
                ELSE /\ speaker_profile' = disk
                     /\ Goto("eagle_init")
    /\ UNCHANGED <<cliVars, libVars, engVars, called, errVars, enrVars, wavVars,
                   disk, micVars, ncalls, recVars, rtfVars,
                   outVars>>

\* The num_speakers argument of pv_eagle_init and the number of floats in
\* `float score', the buffer given to pv_eagle_process.
NumSpeakers == 1
ScoreSlots == 1

\* A construction of the recognizer with no profile at all.
EagleInitNoProfile ==
    /\ pc = "eagle_init"
    /\ \E st \in Statuses, mem \in BOOLEAN :
        /\ status' = st
        /\ IF st # SUCCESS
           THEN /\ EngineFailed("Failed to create an instance of eagle with '%s'")
                /\ called' = called \cup {"pv_eagle_init", "pv_status_to_string"}
                /\ UNCHANGED <<eagle, num_speakers>>
           ELSE /\ eagle' = "live"
                /\ num_speakers' = 0
                /\ IF demo = "mic"
                   THEN /\ Goto("recog_rec_start")
                        /\ called' = called \cup {"pv_eagle_init"}
                   ELSE /\ called' = called \cup {"pv_eagle_init", "pv_eagle_frame_length"}
                        /\ IF mem THEN Goto("recog_loop")
                           ELSE Exit("EXIT_FAILURE", "Failed to allocate pcm memory")
    /\ UNCHANGED <<cliVars, libVars, profiler, engine_pct, engine_profile,
                   error_status, message_stack_depth, stack, printed, enrVars,
                   wavVars, proVars, micVars, ncalls, unscored, after_int, rtfVars,
                   outVars>>

\* pv_eagle_init with one profile and the test of its status; the file demo
\* then allocates the frame buffer.
EagleInit ==
    /\ pc = "eagle_init"
    /\ \E st \in Statuses, mem \in BOOLEAN :
        /\ status' = st
        /\ IF st # SUCCESS
           THEN /\ EngineFailed("Failed to create an instance of eagle with '%s'")
                /\ called' = called \cup {"pv_eagle_init", "pv_status_to_string"}
                /\ UNCHANGED <<eagle, num_speakers>>
           ELSE /\ eagle' = "live"
                /\ num_speakers' = NumSpeakers
                /\ IF demo = "mic"
                   THEN /\ Goto("recog_rec_start")
                        /\ called' = called \cup {"pv_eagle_init"}
                   ELSE /\ called' = called \cup {"pv_eagle_init", "pv_eagle_frame_length"}
                        /\ IF mem THEN Goto("recog_loop")
                           ELSE Exit("EXIT_FAILURE", "Failed to allocate pcm memory")
    /\ UNCHANGED <<cliVars, libVars, profiler, engine_pct, engine_profile,
                   error_status, message_stack_depth, stack, printed, enrVars,
                   wavVars, proVars, micVars, ncalls, unscored, after_int, rtfVars,
                   outVars>>

\* A loop head that skips a file of the wrong format and goes on with the next.
RecogOpenFileSkipsMismatch ==
    /\ pc = "recog_loop"
    /\ IF i < num_audio_paths
       THEN \E ok \in BOOLEAN, f \in WavFiles :
            IF ~ok
            THEN /\ Exit("EXIT_FAILURE", "Failed to open wav file")
                 /\ UNCHANGED <<i, wav, wav_pos, files, called>>
            ELSE /\ files' = Append(files, f)
                 /\ called' = called \cup {"pv_sample_rate"}
                 /\ IF WavFormatCheck(f) # "ok"
                    THEN /\ i' = i + 1
                         /\ pc' = "recog_loop"
                         /\ diag' = WavFormatCheck(f)
                         /\ UNCHANGED <<exit_status, shown, wav, wav_pos>>
                    ELSE wav' = f /\ wav_pos' = 0 /\ Goto("read_frame") /\ UNCHANGED i
       ELSE /\ Goto("recog_finish")
            /\ UNCHANGED <<i, wav, wav_pos, files, called>>
    /\ UNCHANGED <<cliVars, libVars, engVars, errVars, enrVars, last_read, fed,
                   proVars, micVars, ncalls, recVars, rtfVars,
                   outVars>>

\* File demo, head of one iteration of the loop over the audio files: the file
\* is opened and its format checked.
RecogOpenFile ==
    /\ pc = "recog_loop"
    /\ IF i < num_audio_paths
       THEN \E ok \in BOOLEAN, f \in WavFiles :
            IF ~ok
            THEN /\ Exit("EXIT_FAILURE", "Failed to open wav file")
                 /\ UNCHANGED <<wav, wav_pos, files, called>>
            ELSE /\ files' = Append(files, f)
                 /\ called' = called \cup {"pv_sample_rate"}
                 /\ IF WavFormatCheck(f) # "ok"
                    THEN Exit("EXIT_FAILURE", WavFormatCheck(f)) /\ UNCHANGED <<wav, wav_pos>>
                    ELSE wav' = f /\ wav_pos' = 0 /\ Goto("read_frame")
       ELSE /\ Goto("recog_finish")
            /\ UNCHANGED <<wav, wav_pos, files, called>>
    /\ UNCHANGED <<cliVars, libVars, engVars, errVars, enrVars, i, last_read, fed,
                   proVars, micVars, ncalls, recVars, rtfVars,
                   outVars>>

\* The number of samples a read of one frame returns at position pos of a file
\* of total samples.
FrameRead(total, pos) == Min(FrameLength, total - pos)

\* A loop test that lets a partial frame through.
FullFrameOrPartial(n) == n > 0

\* The test of the inner loop: the frame is processed when the read returned
\* frame_length samples.
FullFrame(n) == n = FrameLength

\* while ((int32_t) drwav_read_pcm_frames_s16(&wav, frame_length, pcm) == frame_length):
\* a full frame goes to the process call, anything less ends the file's loop.
ReadFrame ==
    /\ pc = "read_frame"
    /\ last_read' = FrameRead(wav.totalPCMFrameCount, wav_pos)
    /\ called' = called \cup {"pv_eagle_frame_length"}
    /\ IF FullFrame(last_read')
       THEN /\ wav_pos' = wav_pos + last_read'
            /\ unscored' = unscored + 1
            /\ Goto("process")
            /\ UNCHANGED <<i, wav>>
       ELSE /\ i' = i + 1
            /\ wav' = NoWav
            /\ wav_pos' = 0
            /\ Goto("recog_loop")
            /\ UNCHANGED unscored
    /\ UNCHANGED <<cliVars, libVars, engVars, errVars, enrVars, files, fed,
                   proVars, micVars, ncalls, num_speakers, after_int, rtfVars,
                   outVars>>

\* A process step that prints no score for the frame.
ProcessNoScore ==
    /\ pc \in {"process", "mic_process"}
    /\ after_int' = IF is_interrupted THEN Min(MaxCounted, after_int + 1) ELSE after_int
    /\ fed' = IF demo = "file" THEN fed \cup {i + 1} ELSE fed
    /\ \E st \in Statuses :
        /\ status' = st
        /\ IF st # SUCCESS
           THEN /\ EngineFailed("Failed to process audio with '%s'")
                /\ UNCHANGED <<total_cpu_time_usec, total_processed_time_usec>>
                /\ UNCHANGED unscored
                /\ called' = called \cup {"pv_eagle_process", "pv_status_to_string"}
           ELSE /\ Goto(IF pc = "process" THEN "read_frame" ELSE "mic_recog_loop")
                /\ IF pc = "process"
                   THEN /\ \E t \in CpuTimes :
                            total_cpu_time_usec' = total_cpu_time_usec + t
                        /\ total_processed_time_usec' =
                               total_processed_time_usec + AudioTime(FrameLength)
                   ELSE UNCHANGED <<total_cpu_time_usec, total_processed_time_usec>>
                /\ UNCHANGED unscored
                /\ called' = called \cup
                       (IF demo = "file"
                        THEN {"pv_eagle_process", "pv_eagle_frame_length", "pv_sample_rate"}
                        ELSE {"pv_eagle_process"})
    /\ UNCHANGED <<cliVars, libVars, engVars, error_status, message_stack_depth,
                   stack, printed, enrVars, i, wav, wav_pos, last_read, files,
                   proVars, micVars, ncalls, num_speakers, real_time_factor,
                   outVars>>

\* pv_eagle_process on the frame just read, the test of its status, and the
\* score line.
Process ==
    /\ pc \in {"process", "mic_process"}
    /\ after_int' = IF is_interrupted THEN Min(MaxCounted, after_int + 1) ELSE after_int
    /\ fed' = IF demo = "file" THEN fed \cup {i + 1} ELSE fed
    /\ \E st \in Statuses :
        /\ status' = st
        /\ IF st # SUCCESS
           THEN /\ EngineFailed("Failed to process audio with '%s'")
                /\ UNCHANGED <<total_cpu_time_usec, total_processed_time_usec>>
                /\ UNCHANGED unscored
                /\ called' = called \cup {"pv_eagle_process", "pv_status_to_string"}
           ELSE /\ Goto(IF pc = "process" THEN "read_frame" ELSE "mic_recog_loop")
                /\ IF pc = "process"
                   THEN /\ \E t \in CpuTimes :
                            total_cpu_time_usec' = total_cpu_time_usec + t
                        /\ total_processed_time_usec' =
                               total_processed_time_usec + AudioTime(FrameLength)
                   ELSE UNCHANGED <<total_cpu_time_usec, total_processed_time_usec>>
                /\ unscored' = unscored - 1
                /\ called' = called \cup
                       (IF demo = "file"
                        THEN {"pv_eagle_process", "pv_eagle_frame_length", "pv_sample_rate"}
                        ELSE {"pv_eagle_process"})
    /\ UNCHANGED <<cliVars, libVars, engVars, error_status, message_stack_depth,
                   stack, printed, enrVars, i, wav, wav_pos, last_read, files,
                   proVars, micVars, ncalls, num_speakers, real_time_factor,
                   outVars>>

\* An end of the recognition that leaves the recognizer alive.
RecogFinishNoDelete ==
    /\ pc = "recog_finish"
    /\ Goto("close_dl")
    /\ UNCHANGED <<cliVars, libVars, engVars, called, errVars,
                   enrVars, wavVars, proVars, micVars, ncalls, recVars, rtfVars,
                   outVars>>

\* File demo, after the loop: the real time factor, free(pcm), pv_eagle_delete.
RecogFinish ==
    /\ pc = "recog_finish"
    /\ called' = called \cup {"pv_eagle_delete"}
    /\ eagle' = "deleted"
    /\ real_time_factor' = Quotient(total_cpu_time_usec, total_processed_time_usec)
    /\ Goto("close_dl")
    /\ UNCHANGED <<cliVars, libVars, profiler, engine_pct, engine_profile, errVars,
                   enrVars, wavVars, proVars, micVars, ncalls, recVars,
                   total_cpu_time_usec, total_processed_time_usec,
                   outVars>>

\* A recognition loop head that does not read the interrupt flag.
MicRecogLoopIgnoresFlag ==
    /\ pc = "mic_recog_loop"
    /\ Goto("mic_recog_read")
    /\ UNCHANGED <<cliVars, libVars, engVars, called, errVars, enrVars, wavVars,
                   proVars, micVars, ncalls, recVars, rtfVars,
                   outVars>>

\* Mic demo: while (!is_interrupted).
MicRecogLoop ==
    /\ pc = "mic_recog_loop"
    /\ Goto(IF ~is_interrupted THEN "mic_recog_read" ELSE "mic_recog_stop")
    /\ UNCHANGED <<cliVars, libVars, engVars, called, errVars, enrVars, wavVars,
                   proVars, micVars, ncalls, recVars, rtfVars,
                   outVars>>

\* Mic demo: pv_recorder_read of one frame.
MicRecogRead ==
    /\ pc = "mic_recog_read"
    /\ \E ok \in BOOLEAN :
        IF ~ok
        THEN Exit("EXIT_FAILURE", "Failed to read") /\ UNCHANGED unscored
        ELSE Goto("mic_process") /\ unscored' = unscored + 1
    /\ UNCHANGED <<cliVars, libVars, engVars, called, errVars, enrVars, wavVars,
                   proVars, micVars, ncalls, num_speakers, after_int, rtfVars,
                   outVars>>

\* Mic demo, after the loop: pv_recorder_stop, free(pcm), free(speaker_profile).
MicRecogStop ==
    /\ pc = "mic_recog_stop"
    /\ \E ok \in BOOLEAN :
        IF ~ok
        THEN /\ Exit("EXIT_FAILURE", "Failed to stop device")
             /\ UNCHANGED <<recorder, speaker_profile, profile_buf>>
        ELSE /\ recorder' = "stopped"
             /\ speaker_profile' = <<>>
             /\ profile_buf' = "freed"
             /\ Goto("mic_eagle_delete")
    /\ UNCHANGED <<cliVars, libVars, engVars, called, errVars, enrVars, wavVars,
                   profile_size_bytes, disk, is_interrupted, ncalls, recVars, rtfVars,
                   outVars>>

\* Mic demo, last statement of speaker_recognition: pv_eagle_delete.
MicEagleDelete ==
    /\ pc = "mic_eagle_delete"
    /\ called' = called \cup {"pv_eagle_delete"}
    /\ eagle' = "deleted"
    /\ Goto("close_dl")
    /\ UNCHANGED <<cliVars, libVars, profiler, engine_pct, engine_profile, errVars,
                   enrVars, wavVars, proVars, micVars, ncalls, recVars, rtfVars,
                   outVars>>

-----------------------------------------------------------------------------
Next ==
    \/ ParseArgs
    \/ OpenDl
    \/ LoadMainSymbol
    \/ PrintVersion
    \/ RecorderInit
    \/ LoadModeSymbol
    \/ CloseDl
    \/ Interrupt
    \/ GetErrorStack
    \/ PrintErrorMessage
    \/ FreeErrorStack
    \/ ProfilerInit
    \/ EnrollOpenFile
    \/ EnrollFile
    \/ CheckPercentage
    \/ MinLength
    \/ MicEnrollLoop
    \/ MicAfterLoop
    \/ RecorderStart
    \/ RecorderRead
    \/ RecorderStop
    \/ EnrollBatch
    \/ ExportSize
    \/ Export
    \/ ProfilerDelete
    \/ WriteProfile
    \/ OpenProfile
    \/ ReadProfile
    \/ EagleInit
    \/ RecogOpenFile
    \/ ReadFrame
    \/ Process
    \/ RecogFinish
    \/ MicRecogLoop
    \/ MicRecogRead
    \/ MicRecogStop
    \/ MicEagleDelete

Spec == Init /\ [][Next]_vars

\* The program keeps running: its calls return, so a step of the program
\* that can be taken is taken.  The signal may come at any time or never.
ProgramStep == Next /\ is_interrupted' = is_interrupted

SpecLive == Init /\ [][Next]_vars /\ WF_vars(ProgramStep)


-----------------------------------------------------------------------------
(* The enrollment session on its own: a client that holds a live profiler  *)
(* and calls enroll, reset, export-size and export in any order, at most   *)
(* MaxCalls times.  Here pc names the call just made.                      *)

InitSession ==
    /\ demo = "session"
    /\ args = EnrollArgs
    /\ mode = "session"
    /\ num_audio_paths = 0
    /\ pc = "s_created"
    /\ exit_status = "running"
    /\ diag = ""
    /\ shown = {}
    /\ lib = "open"
    /\ missing = {}
    /\ resolved = CapabilityTable
    /\ load_idx = 1
    /\ dl_error = ""
    /\ called = {"pv_eagle_profiler_init"}
    /\ profiler = "live"
    /\ engine_pct = 0
    /\ engine_profile = <<>>
    /\ eagle = "none"
    /\ status = SUCCESS
    /\ error_status = RUNTIME_ERROR
    /\ message_stack_depth = 0
    /\ stack = "none"
    /\ printed = 0
    /\ enroll_percentage = 0
    /\ feedback = AUDIO_OK
    /\ num_enroll_samples = 0
    /\ buf_i = 0
    /\ i = 0
    /\ wav = NoWav
    /\ wav_pos = 0
    /\ last_read = 0
    /\ files = <<>>
    /\ fed = {}
    /\ profile_size_bytes = 0
    /\ speaker_profile = <<>>
    /\ profile_buf = "none"
    /\ disk = <<>>
    /\ is_interrupted = FALSE
    /\ recorder = "none"
    /\ ncalls = 0
    /\ num_speakers = 0
    /\ unscored = 0
    /\ after_int = 0
    /\ total_cpu_time_usec = 0
    /\ total_processed_time_usec = 0
    /\ real_time_factor = NoFactor
    /\ message_stack = <<>>
    /\ rendered = <<>>

\* enroll(samples) with n samples; an earlier export-size answer is stale.
SessionEnroll ==
    /\ ncalls < MaxCalls
    /\ \E n \in 0..MaxSamples, fault \in Statuses, fb \in ContentFeedbacks,
          inc \in Increments :
        ProfilerEnroll(n, fault, fb, inc)
    /\ pc' = "s_enroll"
    /\ ncalls' = ncalls + 1
    /\ engine_profile' = <<>>
    /\ profile_size_bytes' = 0
    /\ speaker_profile' = <<>>
    /\ profile_buf' = "none"
    /\ UNCHANGED <<cliVars, exit_status, diag, shown, libVars, profiler, eagle,
                   error_status, message_stack_depth, stack, printed,
                   num_enroll_samples, buf_i, wavVars, disk, micVars, recVars, rtfVars,
                   outVars>>

\* reset(): pv_eagle_profiler_reset.
SessionReset ==
    /\ ncalls < MaxCalls
    /\ called' = called \cup {"pv_eagle_profiler_reset"}
    /\ engine_pct' = EngineReset(engine_pct)
    /\ status' = SUCCESS
    /\ pc' = "s_reset"
    /\ ncalls' = ncalls + 1
    /\ engine_profile' = <<>>
    /\ profile_size_bytes' = 0
    /\ speaker_profile' = <<>>
    /\ profile_buf' = "none"
    /\ UNCHANGED <<cliVars, exit_status, diag, shown, libVars, profiler, eagle,
                   error_status, message_stack_depth, stack, printed, enrVars,
                   wavVars, disk, micVars, recVars, rtfVars,
                   outVars>>

\* exportSize(): pv_eagle_profiler_export_size, and the buffer of that size.
SessionExportSize ==
    /\ ncalls < MaxCalls
    /\ called' = called \cup {"pv_eagle_profiler_export_size"}
    /\ \E st \in Statuses, p \in Profiles :
        /\ status' = st
        /\ IF st # SUCCESS
           THEN UNCHANGED <<engine_profile, profile_size_bytes, speaker_profile, profile_buf>>
           ELSE /\ engine_profile' = p
                /\ profile_size_bytes' = Len(p)
                /\ speaker_profile' = Zeros(Len(p))
                /\ profile_buf' = "allocated"
    /\ pc' = "s_export_size"
    /\ ncalls' = ncalls + 1
    /\ UNCHANGED <<cliVars, exit_status, diag, shown, libVars, profiler, engine_pct, eagle,
                   error_status, message_stack_depth, stack, printed, enrVars,
                   wavVars, disk, micVars, recVars, rtfVars,
                   outVars>>

\* finalize(): pv_eagle_profiler_export into the buffer of the queried size.
SessionExport ==
    /\ ncalls < MaxCalls
    /\ profile_size_bytes > 0
    /\ called' = called \cup {"pv_eagle_profiler_export"}
    /\ \E fault \in Statuses :
        /\ status' = EngineExportStatus(engine_pct, fault)
        /\ speaker_profile' = IF status' = SUCCESS THEN engine_profile
                              ELSE speaker_profile
    /\ pc' = "s_export"
    /\ ncalls' = ncalls + 1
    /\ UNCHANGED <<cliVars, exit_status, diag, shown, libVars, engVars, error_status,
                   message_stack_depth, stack, printed, enrVars, wavVars,
                   profile_size_bytes, profile_buf, disk, micVars, recVars, rtfVars,
                   outVars>>

NextSession ==
    \/ SessionEnroll
    \/ SessionReset
    \/ SessionExportSize
    \/ SessionExport

SpecSession == InitSession /\ [][NextSession]_vars

-----------------------------------------------------------------------------
(* Properties.                                                             *)

\* The run is past the load_symbol calls of picovoice_main.
PastMainLoads == pc \notin {"parse_args", "open_dl", "main_load", "done"}

\* The run is past the load_symbol calls of speaker_enrollment / speaker_recognition.
PastModeLoads ==
    pc \notin {"parse_args", "open_dl", "main_load", "print_version",
                "recorder_init", "mode_load", "done"}

\* C1: binding atomicity.  No entry point the backend lacks ever counts as
\* resolved; the run gets past a function's load_symbol calls only with every
\* one of them resolved; and when a load_symbol fails (print_dl_error names
\* the entry point) the run has ended in failure with no profiler and no
\* recognizer constructed and no init, enroll, process, export-size or export
\* call made.
C1_BindingAtomicity ==
    /\ resolved \cap missing = {}
    /\ PastMainLoads => Range(MainSymbols(demo)) \subseteq resolved
    /\ PastModeLoads => Range(ModeSymbols(demo, mode)) \subseteq resolved
    /\ (profiler # "none" \/ eagle # "none" \/ called \cap SessionCalls # {})
          => ResolvedBy(demo, mode) \subseteq resolved
    /\ dl_error # "" =>
          /\ dl_error \in missing
          /\ pc = "done" /\ exit_status = "EXIT_FAILURE"
          /\ profiler = "none" /\ eagle = "none"
          /\ called \cap SessionCalls = {}

\* C1 witness: the load of pv_eagle_profiler_export failed in speaker_enrollment
\* after other entry points had been resolved, and the run ended in failure.
C1_Witness ==
    /\ dl_error = "pv_eagle_profiler_export"
    /\ "pv_eagle_profiler_init" \in resolved
    /\ exit_status = "EXIT_FAILURE"

\* C2 as claimed: a backend lacking any entry point of the table is rejected
\* in every mode, before any engine function is called.
C2_AllMandatoryInEveryMode ==
    missing # {} =>
        /\ called = {}
        /\ profiler = "none" /\ eagle = "none"
        /\ pc = "done" => exit_status = "EXIT_FAILURE"

\* C2 amended: a backend lacking an entry point that the demo resolves in the
\* selected mode is rejected before a profiler or recognizer is constructed
\* and before any engine function is called other than pv_eagle_version and,
\* in the mic demo, pv_eagle_frame_length; the run ends in failure.
C2_ModeSymbolsMandatory ==
    (mode \in {"enroll", "test"} /\ missing \cap ResolvedBy(demo, mode) # {}) =>
        /\ called \subseteq {"pv_eagle_version", "pv_eagle_frame_length"}
        /\ demo = "file" => called \subseteq {"pv_eagle_version"}
        /\ profiler = "none" /\ eagle = "none"
        /\ pc = "done" => exit_status = "EXIT_FAILURE"

\* C2 witness: a test-mode run on a backend without pv_eagle_reset was
\* rejected after pv_eagle_version had been called.
C2_Witness ==
    /\ mode = "test"
    /\ missing = {"pv_eagle_reset"}
    /\ dl_error = "pv_eagle_reset"
    /\ "pv_eagle_version" \in called
    /\ exit_status = "EXIT_FAILURE"

\* C3: an export called on a session whose percentage is below 100 returns
\* INVALID_STATE and leaves the profile buffer as it was.
C3_ExportBeforeCompleteFails ==
    [][(pc' = "s_export" /\ ncalls' = ncalls + 1 /\ engine_pct < 100)
          => (status' = INVALID_STATE /\ speaker_profile' = speaker_profile
              /\ speaker_profile' = Zeros(profile_size_bytes))]_vars

\* C3 witness: an export was made on a partly enrolled session and failed.
C3_Witness ==
    /\ pc = "s_export"
    /\ engine_pct \in {40, 60, 80}
    /\ status = INVALID_STATE


\* A step that makes an enroll call (file demo or mic demo).
EnrollStep == pc \in {"enroll_call", "mic_enroll_call"} /\ pc' # pc

\* The number of samples the enroll call about to be made passes.
EnrollSamples ==
    IF pc = "enroll_call" THEN wav.totalPCMFrameCount ELSE num_enroll_samples

\* C4: over the enroll calls of a run (the demos never reset the profiler) the
\* reported percentage never decreases and stays within 0..100, and an export
\* succeeds only after the percentage has reached 100.
C4_MonotonicPercentage ==
    [][/\ enroll_percentage' >= enroll_percentage
       /\ enroll_percentage' \in 0..100
       /\ (pc = "export" /\ pc' # pc /\ status' = SUCCESS)
             => enroll_percentage = 100]_vars

\* C4 witness: a file run whose two enroll calls brought the percentage to 100
\* and whose export succeeded.
C4_Witness ==
    /\ pc = "write_profile"
    /\ demo = "file"
    /\ Len(files) = 2
    /\ enroll_percentage = 100
    /\ status = SUCCESS

\* C5: an enroll call that returns success with a feedback other than AUDIO_OK
\* leaves the percentage at its value before the call.
C5_NonOkKeepsPercentage ==
    [][(EnrollStep /\ status' = SUCCESS /\ feedback' # AUDIO_OK)
          => enroll_percentage' = enroll_percentage]_vars

\* C5 witness: a partly enrolled mic session has just got a content feedback
\* other than AUDIO_OK.
C5_Witness ==
    /\ pc = "mic_enroll_loop"
    /\ feedback \in {UNKNOWN_SPEAKER, NO_VOICE_FOUND, QUALITY_ISSUE}
    /\ enroll_percentage \in {40, 60, 80}

\* C6 as claimed: an enroll call that succeeds with a non-Ok feedback does not
\* end the run, and the enrollment loop (of either demo) is left only with the
\* percentage at 100 or the interrupt flag set.
C6_LoopEndsOnlyAtHundredOrAbort ==
    [][/\ (EnrollStep /\ status' = SUCCESS /\ feedback' # AUDIO_OK)
             => exit_status' = "running"
       /\ ((pc = "enroll_loop" /\ pc' = "check_percentage")
           \/ (pc = "mic_enroll_loop" /\ pc' = "mic_after_loop"))
             => (enroll_percentage >= 100 \/ is_interrupted)]_vars

\* C6 amended: an enroll call that succeeds with a non-Ok feedback does not
\* end the run: control returns to the loop head.  The mic loop then starts
\* the next batch unless the percentage is 100 or the interrupt flag is set,
\* and is left only then; the file loop opens the next audio file while there
\* is one and is left when the files are exhausted, whatever the percentage.
C6_NonOkFeedbackNotFatal ==
    [][/\ (EnrollStep /\ status' = SUCCESS /\ feedback' # AUDIO_OK)
             => /\ exit_status' = "running"
                /\ pc' = IF pc = "enroll_call" THEN "enroll_loop" ELSE "mic_enroll_loop"
       /\ (pc = "mic_enroll_loop" /\ pc' # pc)
             => IF enroll_percentage >= 100 \/ is_interrupted
                THEN pc' = "mic_after_loop" ELSE pc' = "rec_start"
       /\ (pc = "enroll_loop" /\ pc' # pc)
             => IF i >= num_audio_paths
                THEN pc' = "check_percentage" ELSE pc' \in {"enroll_call", "done"}
       /\ (pc = "enroll_loop" /\ pc' = "done")
             => exit_status' = "EXIT_FAILURE" /\ diag' # "" /\ status' = status]_vars

\* C6 witness: the mic demo is about to enroll a batch after a batch that got
\* a non-Ok feedback.
C6_Witness ==
    /\ pc = "mic_enroll_call"
    /\ feedback # AUDIO_OK
    /\ status = SUCCESS
    /\ exit_status = "running"

\* C7: an enroll call given fewer samples than the minimum enrollment length
\* returns success with feedback AUDIO_TOO_SHORT and leaves the percentage
\* unchanged.
C7_ShortAudioTooShort ==
    [][(EnrollStep /\ EnrollSamples < MinEnrollLength)
          => /\ status' = SUCCESS
             /\ feedback' = AUDIO_TOO_SHORT
             /\ enroll_percentage' = enroll_percentage
             /\ exit_status' = "running"]_vars

\* C7 witness: after a first file was accepted, a second, shorter than the
\* minimum, got AUDIO_TOO_SHORT.
C7_Witness ==
    /\ pc = "enroll_loop"
    /\ i = 2
    /\ files[2].totalPCMFrameCount < MinEnrollLength
    /\ feedback = AUDIO_TOO_SHORT
    /\ enroll_percentage \in {40, 60}

\* A step of the file demo that reads a frame.
ReadStep == pc = "read_frame" /\ pc' # pc

\* C8 as claimed: a frame of fewer than frame_length samples is not given to
\* the process entry point and makes the run fail with INVALID_ARGUMENT.
C8_WrongLengthIsInvalidArgument ==
    [][(ReadStep /\ last_read' \in 1..(FrameLength - 1))
          => /\ pc' # "process"
             /\ fed' = fed
             /\ status' = INVALID_ARGUMENT
             /\ exit_status' = "EXIT_FAILURE"]_vars

\* C8 amended: a read of fewer than frame_length samples is never given to the
\* process entry point, and nothing is reported: the loop of that file ends,
\* no status and no diagnostic changes, and the run goes on with the next
\* file; the process entry point is only reached after a read of exactly
\* frame_length samples.
C8_ShortFrameDroppedSilently ==
    [][/\ (ReadStep /\ last_read' # FrameLength)
             => /\ pc' = "recog_loop"
                /\ i' = i + 1
                /\ fed' = fed
                /\ called' \ called \subseteq {"pv_eagle_frame_length"}
                /\ status' = status
                /\ diag' = diag
                /\ exit_status' = "running"
       /\ pc' = "process" => (ReadStep /\ last_read' = FrameLength)]_vars

\* C8 witness: a file of one frame and a partial one: the frame was processed
\* and the loop of the file ended at the partial read.
C8_Witness ==
    /\ pc = "recog_loop"
    /\ i = 1
    /\ fed = {1}
    /\ last_read \in 1..(FrameLength - 1)
    /\ exit_status = "running"

C10_NoCallOnAnyFile ==
    (\E k \in 1..Len(files) : ~FormatOk(files[k])) => fed = {}

\* C10 amended: a mismatching file is detected when it is opened: it is the
\* last file the run opens, no enroll or process call is made on it or on any
\* file after it, and the run ends in failure; only files before it in
\* command-line order have reached the engine.
C10_NoCallFromMismatchOn ==
    \A k \in 1..Len(files) :
        ~FormatOk(files[k]) =>
            /\ k = Len(files)
            /\ i = k - 1
            /\ fed \subseteq 1..(k - 1)
            /\ pc = "done"
            /\ exit_status = "EXIT_FAILURE"

\* C10 witness: a test run whose first file was processed and whose second
\* file, of another sample rate, ended the run.
C10_Witness ==
    /\ mode = "test"
    /\ Len(files) = 2
    /\ files[2].sampleRate # SampleRate
    /\ fed = {1}
    /\ exit_status = "EXIT_FAILURE"


\* The run has ended after an engine call returned a failure status.
EndedOnEngineFailure == pc = "done" /\ status # SUCCESS

\* C11 as claimed: a run that ends on a failed engine call has queried the
\* error stack and has rendered the failing status and, when the query
\* succeeded, every entry of the stack.
C11_EveryFailureQueriedAndRendered ==
    EndedOnEngineFailure =>
        /\ "pv_get_error_stack" \in called
        /\ "status" \in shown
        /\ error_status = SUCCESS => printed = message_stack_depth

\* C12 as claimed: when the stack query after a failed engine call fails too,
\* the run ends in failure having rendered the status of the failed call next
\* to the note that the error state could not be retrieved.
C12_OriginalStatusKept ==
    (EndedOnEngineFailure /\ "pv_get_error_stack" \in called /\ error_status # SUCCESS)
        => /\ exit_status = "EXIT_FAILURE"
           /\ diag = "Unable to get Eagle error state with '%s'"
           /\ "status" \in shown

\* C13 as claimed: at the end of a run every error stack a query returned,
\* of whatever depth, has been released.
C13_EveryStackReleased ==
    (pc = "done" /\ stack # "none") => stack = "freed"

\* C13 amended: an error stack of depth above 0 is released exactly once,
\* after all its entries were printed and as the last thing before the run
\* ends in failure, so no entry is read after the release; a stack of depth 0
\* is neither printed nor released.
C13_NonEmptyStackReleasedOnce ==
    [][/\ (stack # "freed" /\ stack' = "freed")
             => /\ stack = "held"
                /\ message_stack_depth > 0
                /\ printed = message_stack_depth
                /\ pc' = "done" /\ exit_status' = "EXIT_FAILURE"
       /\ stack = "freed"
             => (stack' = "freed" /\ printed' = printed /\ called' = called)
       /\ (pc' = "done" /\ stack' = "held") => message_stack_depth' = 0
       /\ (pc' = "done" /\ stack' = "freed") => "pv_free_error_stack" \in called'
       /\ printed' # printed => (stack' = "held" /\ printed' = message_stack_depth)]_vars

\* C13 witness: a stack of the largest depth was printed and released.
C13_Witness ==
    /\ pc = "done"
    /\ stack = "freed"
    /\ message_stack_depth = MaxDepth
    /\ printed = MaxDepth


\* The step that saves the exported profile, and the step that loads one.
SaveStep == pc = "write_profile" /\ pc' = "close_dl"
LoadStep == pc = "read_profile" /\ pc' = "eagle_init"

\* C14 as claimed: the file a save leaves holds the exported profile, byte
\* for byte and of the same length, and a load returns the bytes of the file
\* it read, so that a load after a save returns the exported profile.
C14_SaveLoadRoundTrip ==
    [][/\ SaveStep => (speaker_profile = engine_profile /\ disk' = speaker_profile)
       /\ LoadStep => (speaker_profile' = disk /\ profile_size_bytes' = Len(disk))]_vars

\* C15 as claimed: recognizer construction is never reached, and never called,
\* with an empty profile.
C15_EmptyProfileRejected ==
    (pc = "eagle_init" \/ "pv_eagle_init" \in called) => Len(speaker_profile) > 0

\* C16 as claimed: in an enroll run the profile file has content only after
\* export returned success, that content is the complete exported profile,
\* and a run that ended in failure or on the interrupt flag left no content.
C16_NoPartialProfileOnDisk ==
    mode = "enroll" =>
        /\ disk # <<>> => /\ "pv_eagle_profiler_export" \in called
                          /\ status = SUCCESS
                          /\ disk = engine_profile
        /\ (pc = "done" /\ (exit_status = "EXIT_FAILURE" \/ diag = "Enrollment interrupted"))
              => disk = <<>>

FrameSubmitted == pc' \in {"process", "mic_process"} /\ pc' # pc
ProcessStep == pc \in {"process", "mic_process"} /\ pc' # pc

\* C18: a frame is handed to process right after the read that produced it,
\* the reads of a file taking its frames one after the other; there is never
\* more than one frame read and not yet scored; a successful process call is
\* followed by the print of its score before the next read, and a failed one
\* by no score.
C18_OneScorePerFrameInOrder ==
    [][/\ unscored' \in {0, 1}
       /\ FrameSubmitted
             => /\ pc \in {"read_frame", "mic_recog_read"}
                /\ unscored = 0 /\ unscored' = 1
                /\ demo = "file" => (wav' = wav /\ wav_pos' = wav_pos + FrameLength)
       /\ (pc \in {"read_frame", "mic_recog_read"} /\ pc' # pc) => unscored = 0
       /\ (ProcessStep /\ status' = SUCCESS)
             => /\ unscored' = 0
                /\ pc' = IF demo = "file" THEN "read_frame" ELSE "mic_recog_loop"
       /\ (ProcessStep /\ status' # SUCCESS)
             => (unscored' = 1 /\ pc' = "get_error_stack")]_vars

\* C18 witness: the two frames of a file were read, processed and scored one
\* after the other.
C18_Witness ==
    /\ pc = "read_frame"
    /\ i = 0
    /\ wav_pos = 2 * FrameLength
    /\ unscored = 0
    /\ "pv_eagle_process" \in called

\* C19 as claimed: when a frame of a file is about to be processed after
\* frames of an earlier file were, pv_eagle_reset has been called.
C19_ResetBetweenFiles ==
    (pc = "process" /\ \E k \in fed : k <= i) => "pv_eagle_reset" \in called

\* C20: a recognizer is constructed with at least one profile, and whenever a
\* frame is processed the number of profiles it was constructed with is the
\* number of scores the buffer given to the process call has room for.
C20_ScoresMatchProfiles ==
    /\ eagle # "none" => num_speakers >= 1
    /\ (pc \in {"process", "mic_process"} \/ "pv_eagle_process" \in called)
          => (eagle # "none" /\ num_speakers = ScoreSlots)

\* C20 witness: a frame is about to be processed by a live recognizer.
C20_Witness ==
    /\ pc = "mic_process"
    /\ eagle = "live"
    /\ num_speakers = NumSpeakers
    /\ "pv_eagle_process" \in called


\* The engine calls of the error report.
ErrorReportCalls == {"pv_get_error_stack", "pv_free_error_stack", "pv_status_to_string"}
\* The places of the error report, and the end of the run.
ErrorReportPlaces == {"get_error_stack", "print_error", "free_error_stack", "done"}

\* C21: once an engine call has returned a failure status the run is in its
\* error report or at its end; the failed call is not made again and no other
\* engine call is made but those of the error report; the status is kept, and
\* the run ends with a failure exit status.
C21_NoRetryAfterFailure ==
    [][status' # SUCCESS
          => /\ pc' \in ErrorReportPlaces
             /\ status # SUCCESS
                   => /\ status' = status
                      /\ called' \ called \subseteq ErrorReportCalls
             /\ pc' = "done" => exit_status' = "EXIT_FAILURE"]_vars

\* C21 witness: a process call failed, the stack was reported and released,
\* and the run ended in failure.
C21_Witness ==
    /\ pc = "done"
    /\ status # SUCCESS
    /\ exit_status = "EXIT_FAILURE"
    /\ "pv_eagle_process" \in called
    /\ stack = "freed"

\* C22: when the backend module is closed no profiler and no recognizer
\* created from it is alive, and after the close no engine entry point is
\* called and no engine object comes to life.
C22_NoSessionOutlivesHandle ==
    [][/\ lib' = "closed" => (profiler' # "live" /\ eagle' # "live")
       /\ lib = "closed"
             => (lib' = "closed" /\ called' = called /\ engVars' = engVars)]_vars

\* C22 witness: a test run deleted its recognizer and closed the module.
C22_Witness ==
    /\ lib = "closed"
    /\ eagle = "deleted"
    /\ "pv_eagle_process" \in called
    /\ exit_status = "EXIT_SUCCESS"

-----------------------------------------------------------------------------
(* Cancellation.                                                           *)

\* The heads of the two microphone loops, where is_interrupted is read.
LoopHeads == {"mic_enroll_loop", "mic_recog_loop"}

\* C24: the interrupt flag is set only by the signal handler, which changes
\* nothing else, and is never cleared; a loop head reached with the flag set
\* leaves the loop; and so at most one enroll or process call is ever made
\* with the flag set.
C24_AtMostOneCallAfterInterrupt ==
    [][/\ after_int' <= 1
       /\ is_interrupted' # is_interrupted
            => /\ is_interrupted' /\ demo = "mic"
               /\ pc' = pc /\ called' = called /\ status' = status
       /\ (is_interrupted /\ pc \in LoopHeads)
            => pc' \in {"mic_after_loop", "mic_recog_stop"}
       /\ (is_interrupted /\ pc = "mic_after_loop")
            => (pc' = "done" /\ called' = called)]_vars

\* A recognition interrupted between the read of a frame and its processing:
\* that frame is processed, the loop exits and the recognizer is deleted.
C24_Witness ==
    /\ after_int = 1
    /\ mode = "test"
    /\ is_interrupted
    /\ eagle = "deleted"
    /\ "pv_eagle_process" \in called

-----------------------------------------------------------------------------
(* The command line.                                                       *)

\* Exactly one of the two modes is selected and the access key, the model
\* path and the library path are all given.
OneModeAllPaths(a) ==
    /\ a.library_path /\ a.access_key /\ a.model_path
    /\ a.e # a.t

\* C25: the backend is opened only for a command line with exactly one mode
\* and all three paths; every other command line ends in a failure exit with
\* the backend unopened.
C25_OtherCombinationsFail ==
    /\ lib # "unopened" => OneModeAllPaths(args)
    /\ (pc # "parse_args" /\ ~OneModeAllPaths(args))
         => (pc = "done" /\ lib = "unopened" /\ exit_status = "EXIT_FAILURE")

\* C25, amended: the backend is opened only for a command line with exactly
\* one mode, all three paths, only known options and, in the file demo, at
\* least one audio file; every other command line ends with the backend
\* unopened, in a failure exit unless -s of the mic demo came before any
\* unknown option, which ends the run after the list of audio devices.
C25_OpenedOnlyOnOneModeAllPaths ==
    /\ lib # "unopened"
         => /\ OneModeAllPaths(args)
            /\ args.first = "none"
            /\ demo = "file" => num_audio_paths >= 1
    /\ (pc # "parse_args" /\ ~(OneModeAllPaths(args) /\ args.first = "none"))
         => /\ pc = "done" /\ lib = "unopened" /\ called = {}
            /\ exit_status = "EXIT_SUCCESS" => (demo = "mic" /\ args.first = "s")

\* A command line with all three paths and both modes, rejected.
C25_Witness ==
    /\ pc = "done"
    /\ args.library_path /\ args.access_key /\ args.model_path
    /\ args.e /\ args.t /\ args.first = "none"
    /\ lib = "unopened"
    /\ exit_status = "EXIT_FAILURE"
    /\ diag = "Please run the demo in either enrollment or test mode"

-----------------------------------------------------------------------------
(* Reset of an enrollment session.                                         *)

\* A step of the session client that makes the call named by place p.
SessionCall(p) == pc' = p /\ ncalls' = ncalls + 1

\* C26: a reset leaves the profiler alive with percentage 0; an enroll call
\* made right after it reports what a fresh profiler would report (the
\* increment of that audio alone when the audio is accepted, 0 otherwise);
\* and an export made after a reset while the percentage is below 100 fails
\* with INVALID_STATE and leaves the buffer as it was.
C26_ResetDiscardsEnrollment ==
    [][/\ SessionCall("s_reset")
            => (engine_pct' = 0 /\ status' = SUCCESS /\ profiler' = "live")
       /\ (pc = "s_reset" /\ SessionCall("s_enroll"))
            => /\ status' = SUCCESS => enroll_percentage' = engine_pct'
               /\ IF status' = SUCCESS /\ feedback' = AUDIO_OK
                  THEN engine_pct' \in Increments
                  ELSE engine_pct' = 0
       /\ (SessionCall("s_export") /\ "pv_eagle_profiler_reset" \in called
              /\ engine_pct < 100)
            => (status' = INVALID_STATE /\ speaker_profile' = speaker_profile)]_vars

\* A session that was enrolled to 100, then reset: the export that follows
\* fails with INVALID_STATE.
C26_Witness ==
    /\ pc = "s_export"
    /\ "pv_eagle_profiler_reset" \in called
    /\ enroll_percentage = 100
    /\ engine_pct = 0
    /\ status = INVALID_STATE

-----------------------------------------------------------------------------
(* Export only after a complete enrollment.                                *)

\* The two export entry points.
ExportCalls == {"pv_eagle_profiler_export_size", "pv_eagle_profiler_export"}

\* C27: the export-size and export calls are made, and their places reached,
\* only with a last reported percentage of at least 100, which is the
\* percentage the engine holds; a file-mode run that leaves its loop with
\* less ends there in failure, with neither call made.
C27_ExportOnlyAfterComplete ==
    [][/\ (called' \ called) \cap ExportCalls # {}
            => (enroll_percentage >= 100 /\ engine_pct = enroll_percentage)
       /\ pc' \in {"export_size", "export"} => enroll_percentage' >= 100
       /\ (pc = "check_percentage" /\ enroll_percentage < 100)
            => /\ pc' = "done" => (exit_status' = "EXIT_FAILURE" /\ called' = called)
               /\ pc' \in {"done", "check_percentage"}
       /\ (pc' = "done" /\ mode = "enroll" /\ enroll_percentage' < 100)
            => called' \cap ExportCalls = {}]_vars

\* A file-mode enrollment whose files brought the percentage to 40 or 60 only: it
\* ended at the check after the loop, with no export call.
C27_Witness ==
    /\ pc = "done"
    /\ demo = "file"
    /\ diag = "Insufficient enrollment percentage"
    /\ exit_status = "EXIT_FAILURE"
    /\ enroll_percentage \in {40, 60}
    /\ called \cap ExportCalls = {}

-----------------------------------------------------------------------------
(* The frames of file-mode recognition.                                    *)

\* A step of the file demo that makes the process call.
FileProcessStep == pc = "process" /\ pc' # pc

\* C28: in the file demo the process call is made only on a frame of exactly
\* frame_length samples, all of them returned by the read just before it and
\* taken from the open file; a read that returns fewer closes the file and
\* moves to the next one with no process call, no frame owed a score, and
\* nothing reported.
C28_OnlyFullFramesProcessed ==
    [][/\ FileProcessStep
            => /\ last_read = FrameLength
               /\ wav # NoWav
               /\ FrameLength <= wav_pos /\ wav_pos <= wav.totalPCMFrameCount
               /\ unscored = 1
       /\ pc' = "process" => (pc = "read_frame" /\ last_read' = FrameLength)
       /\ (pc = "read_frame" /\ pc' # pc /\ ~FullFrame(last_read'))
            => /\ last_read' < FrameLength
               /\ pc' = "recog_loop" /\ wav' = NoWav
               /\ "pv_eagle_process" \in called' => "pv_eagle_process" \in called
               /\ unscored' = 0
               /\ <<status, diag, shown, exit_status, stack>>'
                    = <<status, diag, shown, exit_status, stack>>]_vars

\* A recognition over files that ended with a partial frame: the full frames
\* were scored, the partial one was dropped, and the run ended in success.
C28_Witness ==
    /\ pc = "done"
    /\ demo = "file"
    /\ mode = "test"
    /\ exit_status = "EXIT_SUCCESS"
    /\ last_read \in 1..(FrameLength - 1)
    /\ "pv_eagle_process" \in called
    /\ unscored = 0

-----------------------------------------------------------------------------
(* The enrollment buffer of the mic demo.                                  *)

\* C29: every recorder read of the mic enrollment, which writes frame_length
\* samples at offset buf_i of enroll_pcm, stays inside the num_enroll_samples
\* samples of that buffer.
C29_RecorderReadsStayInBuffer ==
    (pc = "rec_read" /\ buf_i < num_enroll_samples)
        => buf_i + FrameLength <= num_enroll_samples

-----------------------------------------------------------------------------
(* The lifetime of the profile buffer.                                     *)

\* C30: while the recognizer exists, the profile buffer it was constructed
\* from is allocated: it has not been freed.
C30_ProfileOutlivesRecognizer ==
    eagle = "live" => profile_buf = "allocated"

-----------------------------------------------------------------------------
(* The end of the microphone recognition.                                  *)

\* The places of the processing loop of the mic demo.
MicRecogPlaces == {"mic_recog_loop", "mic_recog_read", "mic_process"}

\* The run has ended after an orderly shutdown of the mic recognition.
MicRecogShutDown ==
    /\ pc = "done"
    /\ exit_status = "EXIT_SUCCESS"
    /\ recorder = "deleted"
    /\ eagle = "deleted"
    /\ lib = "closed"

\* Control leaves the processing loop for the statements after it only with
\* the flag set; any other way out is the failure of a call.  The recognizer
\* is deleted only with the recorder stopped, and the backend is closed only
\* with the recognizer deleted.
MicRecogOrder ==
    [][/\ (pc \in MicRecogPlaces /\ pc' \notin MicRecogPlaces)
            => IF pc' = "mic_recog_stop" THEN is_interrupted
               ELSE /\ pc' \in {"done", "get_error_stack"}
                    /\ pc' = "done" => exit_status' = "EXIT_FAILURE"
       /\ (demo = "mic" /\ eagle = "live" /\ eagle' = "deleted")
            => (recorder = "stopped" /\ pc \notin MicRecogPlaces /\ lib' = "open")
       /\ (demo = "mic" /\ mode = "test" /\ lib = "open" /\ lib' = "closed")
            => (eagle = "deleted" /\ recorder = "stopped")]_vars

\* C31: in the mic recognition, once the flag is set the run leaves the loop,
\* stops the recorder, deletes the recognizer and closes the backend, in that
\* order; with the flag clear the loop is left only when a call fails.
C31_InterruptShutsDown ==
    /\ MicRecogOrder
    /\ (is_interrupted /\ pc \in MicRecogPlaces) ~> MicRecogShutDown

\* C31, amended: once the flag is set the run ends: in a failure exit when
\* the read or the process call of the frame at hand, or the stop of the
\* recorder, fails, and otherwise after the orderly shutdown.
C31_InterruptEndsRun ==
    /\ MicRecogOrder
    /\ (is_interrupted /\ pc \in MicRecogPlaces)
         ~> (pc = "done" /\ (exit_status = "EXIT_FAILURE" \/ MicRecogShutDown))

\* A recognition interrupted at the head of the loop: no further frame is
\* processed and the run shuts down in order.
C31_Witness ==
    /\ MicRecogShutDown
    /\ demo = "mic"
    /\ mode = "test"
    /\ is_interrupted
    /\ after_int = 0
    /\ "pv_eagle_process" \in called

-----------------------------------------------------------------------------
(* The interrupted microphone enrollment.                                  *)

\* C32: a mic enrollment whose loop is left with the flag set goes to the test
\* after the loop and ends there with a success status, whatever the
\* percentage: no export-size or export call is made and the profile file is
\* not written.
C32_InterruptedEnrollmentExportsNothing ==
    [][/\ (pc = "mic_enroll_loop" /\ is_interrupted)
            => (pc' = "mic_after_loop" /\ is_interrupted' /\ called' = called)
       /\ (pc = "mic_after_loop" /\ is_interrupted)
            => /\ pc' = "done"
               /\ exit_status' = "EXIT_SUCCESS"
               /\ called' = called
               /\ called \cap ExportCalls = {}
               /\ disk = <<>> /\ disk' = disk
               /\ profile_buf' = "none"]_vars

\* An enrollment whose last batch brought the percentage to 100 while the
\* signal came: nothing was exported and the run ended in success.
C32_Witness ==
    /\ pc = "done"
    /\ demo = "mic"
    /\ mode = "enroll"
    /\ is_interrupted
    /\ enroll_percentage = 100
    /\ exit_status = "EXIT_SUCCESS"
    /\ called \cap ExportCalls = {}
    /\ disk = <<>>
    /\ lib = "open"

-----------------------------------------------------------------------------
(* The recorder in the microphone enrollment.                              *)

\* The run is a microphone enrollment.
MicEnrollment == demo = "mic" /\ mode = "enroll"

\* C33: in the mic enrollment the recorder is started only when stopped and
\* stopped only when started, the first of the two being a start; a recorder
\* read is made only on a started recorder, before the stop of its batch; and
\* the enroll call is made only with the recorder stopped.
C33_RecorderProtocol ==
    [][MicEnrollment
         => /\ (recorder' = "started" /\ recorder # "started")
                 => (recorder = "stopped" /\ pc = "rec_start" /\ pc' = "rec_read")
            /\ (recorder = "started" /\ recorder' # "started")
                 => (recorder' = "stopped" /\ pc = "rec_stop"
                     /\ pc' = "mic_enroll_call")
            /\ pc = "rec_start" => recorder = "stopped"
            /\ pc \in {"rec_read", "rec_stop"} => recorder = "started"
            /\ "pv_eagle_profiler_enroll" \in called' \ called
                 => (pc = "mic_enroll_call" /\ recorder = "stopped")
            /\ (pc = "mic_enroll_call" /\ pc' # pc)
                 => (recorder = "stopped" /\ recorder' = "stopped")]_vars

\* The second batch of an enrollment is being recorded: the recorder was
\* started, read, stopped, the batch enrolled, and the recorder started again.
C33_Witness ==
    /\ MicEnrollment
    /\ pc = "rec_read"
    /\ recorder = "started"
    /\ buf_i > 0
    /\ "pv_eagle_profiler_enroll" \in called
    /\ enroll_percentage \in {40, 60}

-----------------------------------------------------------------------------
(* The loop over the audio files of the file-mode enrollment.              *)

\* The run is a file-mode enrollment.
FileEnrollment == demo = "file" /\ mode = "enroll"

\* C34: the file-mode enrollment enrolls the audio files one by one in the
\* order of the command line, each file once; it goes on to the next file
\* whatever the percentage; and it reaches the test of the percentage once,
\* after the last file, where the percentage the last enroll call reported
\* decides between the export and the failure exit.
C34_OneEnrollPerFileInOrder ==
    [][FileEnrollment
         => /\ "pv_eagle_profiler_enroll" \in called' \ called
                 => (pc = "enroll_call" /\ i = 0)
            /\ (pc = "enroll_call" /\ pc' # pc)
                 => /\ fed = 1..i /\ Len(files) = i + 1 /\ wav = files[i + 1]
                    /\ fed' = 1..(i + 1)
                    /\ status' = SUCCESS => (i' = i + 1 /\ pc' = "enroll_loop")
            /\ (pc = "enroll_loop" /\ i < num_audio_paths)
                 => (pc' # "check_percentage" /\ i' = i)
            /\ pc' = "check_percentage"
                 => /\ i' = num_audio_paths /\ fed' = 1..num_audio_paths
                    /\ enroll_percentage' = engine_pct'
            /\ pc = "check_percentage"
                 => /\ pc' \in {"export_size", "done"}
                    /\ pc' = "export_size" <=> enroll_percentage >= 100
                    /\ enroll_percentage' = enroll_percentage
            /\ (pc' = "check_percentage" /\ pc # pc')
                 => (pc = "enroll_loop" /\ called \cap ExportCalls = {})]_vars

\* The second file of a command line is about to be enrolled although the
\* first one brought the percentage to 100.
C34_Witness ==
    /\ FileEnrollment
    /\ pc = "enroll_call"
    /\ i = 1
    /\ fed = {1}
    /\ enroll_percentage = 100

-----------------------------------------------------------------------------
(* The last batch of the microphone enrollment.                            *)

\* The places of one batch of the mic enrollment: recording and enrolling.
BatchPlaces == {"rec_start", "rec_read", "rec_stop", "mic_enroll_call"}

\* C35: in the mic enrollment a batch is recorded and enrolled only while the
\* last reported percentage is below 100; once an enroll call has reported
\* 100 the loop is left and no recorder or enroll call follows.
C35_NoEnrollAfterHundred ==
    [][MicEnrollment
         => /\ pc \in BatchPlaces => enroll_percentage < 100
            /\ (pc = "mic_enroll_call" /\ pc' # pc)
                 => (enroll_percentage < 100 /\ engine_pct = enroll_percentage)
            /\ (pc = "mic_enroll_loop" /\ enroll_percentage >= 100)
                 => pc' \in {"mic_enroll_loop", "mic_after_loop"}
            /\ enroll_percentage >= 100
                 => /\ enroll_percentage' = enroll_percentage
                    /\ pc' \notin BatchPlaces
                    /\ recorder' \in {recorder, "deleted"}]_vars

\* The batch that reported 100 has just ended the loop of an enrollment
\* that was not interrupted.
C35_Witness ==
    /\ MicEnrollment
    /\ pc = "mic_after_loop"
    /\ enroll_percentage = 100
    /\ ~is_interrupted
    /\ recorder = "stopped"

-----------------------------------------------------------------------------
(* The profile given to the recognizer.                                    *)

\* The two diagnostics of a profile file that cannot be loaded.
LoadFailures == {"Failed to open speaker profile file", "Failed to read speaker profile"}

\* C36: a profile file that cannot be opened, or of which fewer bytes are
\* read than it holds, ends the run in failure with no recognizer
\* constructed (the run is killed instead when the buffer could not be
\* allocated and the read faults); pv_eagle_init is called only with a
\* buffer that holds all the bytes of the file.
C36_InitOnlyWithWholeProfile ==
    [][/\ (pc \in {"open_profile", "read_profile"} /\ pc' = "done")
            => /\ exit_status' \in {"EXIT_FAILURE", "killed"}
               /\ exit_status' = "EXIT_FAILURE" <=> diag' \in LoadFailures
               /\ eagle' = "none" /\ "pv_eagle_init" \notin called'
       /\ (pc = "read_profile" /\ pc' # pc /\ speaker_profile' # disk)
            => (pc' = "done" /\ exit_status' \in {"EXIT_FAILURE", "killed"})
       /\ pc' = "eagle_init"
            => /\ pc \in {"read_profile", "eagle_init"}
               /\ speaker_profile' = disk
               /\ profile_size_bytes' = Len(disk)
               /\ profile_buf' = "allocated"
       /\ "pv_eagle_init" \in called' \ called
            => (pc = "eagle_init" /\ speaker_profile = disk /\ diag \notin LoadFailures)
       /\ diag \in LoadFailures => (called' = called /\ eagle' = "none")]_vars

\* A profile file of which fewer bytes were read than it holds: the run
\* ended in failure before pv_eagle_init.
C36_Witness ==
    /\ pc = "done"
    /\ diag = "Failed to read speaker profile"
    /\ Len(disk) > 0
    /\ speaker_profile # disk
    /\ profile_buf = "allocated"
    /\ exit_status = "EXIT_FAILURE"
    /\ eagle = "none"
    /\ "pv_eagle_init" \notin called

-----------------------------------------------------------------------------
(* The real time factor of the file demo.                                  *)

\* The duration of the first k audio files of the run.
RECURSIVE EnrolledAudio(_)
EnrolledAudio(k) ==
    IF k = 0 THEN 0
    ELSE EnrolledAudio(k - 1) + AudioTime(files[k].totalPCMFrameCount)

\* The number of full frames the first k audio files of the run hold.
RECURSIVE FullFrames(_)
FullFrames(k) ==
    IF k = 0 THEN 0
    ELSE FullFrames(k - 1) + (files[k].totalPCMFrameCount \div FrameLength)

\* The frames of the recognition whose process call has returned with
\* success: all full frames of the files done with, and those read from the
\* open file but for the one at hand.
FramesProcessed ==
    FullFrames(i) + (IF wav = NoWav THEN 0 ELSE (wav_pos \div FrameLength) - unscored)

\* C37: in the file demo the cumulative audio duration is, in recognition,
\* that of the n frames processed so far, n * frame_length * 10^6 /
\* sample_rate, and in enrollment the sum over the files enrolled so far of
\* samples * 10^6 / sample_rate; the factor, when computed, is the cumulative
\* processing time over that duration.  The mic demo computes none.
C37_OneFormulaForFactor ==
    /\ (demo = "file" /\ mode = "test")
         => total_processed_time_usec = AudioTime(FramesProcessed * FrameLength)
    /\ (demo = "file" /\ mode = "enroll")
         => total_processed_time_usec = EnrolledAudio(i)
    /\ real_time_factor.kind # "none"
         => /\ demo = "file"
            /\ real_time_factor.num = total_cpu_time_usec
            /\ real_time_factor.den = total_processed_time_usec
            /\ IF mode = "test" THEN i = num_audio_paths /\ eagle = "deleted"
               ELSE i = num_audio_paths /\ enroll_percentage >= 100
    /\ demo = "mic"
         => (total_processed_time_usec = 0 /\ real_time_factor = NoFactor)

\* A recognition over two files of one frame each has ended: the factor was
\* computed over the duration of two frames.
C37_Witness ==
    /\ pc = "done"
    /\ demo = "file"
    /\ mode = "test"
    /\ Len(files) = 2
    /\ real_time_factor.kind = "finite"
    /\ real_time_factor.den = AudioTime(2 * FrameLength)
    /\ real_time_factor.num \in {0, 10, 20}

\* C38: whenever the real time factor is computed, the cumulative audio
\* duration it divides by is strictly positive.
C38_FactorDivisorPositive ==
    real_time_factor.kind # "none"
        => (real_time_factor.den > 0 /\ real_time_factor.kind = "finite")

-----------------------------------------------------------------------------
(* The rendering of the error stack.                                       *)

\* C39: once print_error_message has run on a stack of depth d, the lines
\* written are exactly d, line number k (from 1) carrying index k - 1 and the
\* text of entry k - 1 of the stack, in the engine's order; before it runs,
\* and when the depth is 0, no line is written.
C39_StackRenderedInOrder ==
    /\ Len(message_stack) = message_stack_depth
    /\ IF pc = "free_error_stack" \/ stack = "freed"
       THEN /\ Len(rendered) = message_stack_depth
            /\ message_stack_depth > 0
            /\ \A k \in 1..message_stack_depth :
                  rendered[k] = [index |-> k - 1, text |-> message_stack[k]]
       ELSE rendered = <<>>
    /\ pc = "print_error" => (message_stack_depth > 0 /\ stack = "held")

\* A stack of the largest depth whose first two entries differ was rendered
\* and released.
C39_Witness ==
    /\ pc = "done"
    /\ stack = "freed"
    /\ message_stack_depth = MaxDepth
    /\ message_stack[1] = "m2"
    /\ message_stack[2] = "m1"
    /\ Len(rendered) = MaxDepth
    /\ rendered[1] = [index |-> 0, text |-> "m2"]
    /\ rendered[2] = [index |-> 1, text |-> "m1"]

====
